---------------------------- MODULE Spec2Model ----------------------------
(***************************************************************************)
(* Incremental build pipeline of ci/ci/compile_for_board_v2.py for ONE     *)
(* target (board): the persisted build cache (build_cache.json), the       *)
(* rebuild decision, the working source area (<builddir>/src) and the      *)
(* per-unit build loop of compile_examples, together with the environment  *)
(* that edits unit trees and library sources between and during runs.      *)
(* Then the orchestrator of ci/ci/concurrent_run_v2.py, which runs one     *)
(* compile_examples per target on a thread pool; robust_rmtree and         *)
(* create_build_dir of ci/ci/create_build_dir_v2.py; the two-stage build   *)
(* of ci/ci-compile.py; runs of the v2 build over several targets; the     *)
(* incremental sync on a mirrored working area; and the defines list that  *)
(* the create_build_dir calls of a run share.                              *)
(***************************************************************************)
EXTENDS Integers, Sequences, FiniteSets, TLC

(***************************************************************************)
(* Bounds of the model.                                                    *)
(***************************************************************************)
MaxRuns == 2
MaxEdits == 1
MaxTime == 1
MaxProjects == 2
MaxCpus == 2
MaxRetries == 5
MaxDelay == 2
MaxUnits == 3
MaxScenarioRuns == 3

(***************************************************************************)
(* Build units (examples).  A unit is a directory; example_path.name is    *)
(* its last path component.                                                *)
(***************************************************************************)
Blink == [dir |-> "examples", name |-> "Blink"]
Fade == [dir |-> "examples", name |-> "Fade"]
Units == {Blink, Fade}
NoUnit == [dir |-> "", name |-> ""]

board_name == "uno"

(* Relative paths inside a unit, as tuples of path segments. *)
MainIno == <<"main.ino">>
UtilH == <<"util.h">>
OutJs == <<"fastled_js", "out.js">>
Paths == {MainIno, UtilH, OutJs}

(* File contents (bytes) are abstract values; NoContent stands for "no such
   file". *)
Contents == {"a", "b"}
NoContent == "none"

(* Library sources under ./src: a stem and an extension (a tuple of characters). *)
LibCpp == [stem |-> "colorutils", ext |-> <<"c", "p", "p">>]
LibH == [stem |-> "FastLED", ext |-> <<"h">>]
LibFiles == {LibCpp, LibH}

EmptyFn == [x \in {} |-> 0]

(***************************************************************************)
(* Python values read from / written to the cache document.                *)
(*   dict : d is the mapping                                               *)
(*   list : the empty list []                                              *)
(*   str  : d is the tuple of its characters                               *)
(*   int, none : scalars                                                   *)
(***************************************************************************)
PyDict(f) == [t |-> "dict", d |-> f]
PyOther(tag) == [t |-> tag, d |-> EmptyFn]
PyStr(chars) == [t |-> "str", d |-> chars]

(* `k in x`: membership for dict, False for [] and for a string that does
   not contain k, TypeError for int and None. *)
PyInRaises(x) == x.t \in {"int", "none"}
PyIn(k, x) == x.t = "dict" /\ k \in DOMAIN x.d

(* `for k in x`: the keys of a dict, nothing for [], the characters of a
   string (each a one-segment name), TypeError for int and None. *)
PyIterRaises(x) == x.t \in {"int", "none"}
PyIter(x) ==
    CASE x.t = "dict" -> DOMAIN x.d
      [] x.t = "str" -> {<<x.d[i]>> : i \in DOMAIN x.d}
      [] OTHER -> {}

(* `x[k] = v` is defined for dict only. *)
PySetItemRaises(x) == x.t # "dict"
PySetItem(x, k, v) ==
    PyDict([j \in DOMAIN x.d \cup {k} |-> IF j = k THEN v ELSE x.d[j]])

(***************************************************************************)
(* _fastled_js_is_parent_directory: "fastled_js" occurs in the path.       *)
(***************************************************************************)
_fastled_js_is_parent_directory(p) == \E i \in DOMAIN p : p[i] = "fastled_js"

(* get_file_hash: SHA-256 of the content, injective on contents. *)
get_file_hash(c) == <<"sha256", c>>

(* get_example_files_with_hashes: every regular file not under fastled_js. *)
get_example_files_with_hashes(tree) ==
    [p \in {q \in DOMAIN tree :
               tree[q] # NoContent /\ ~_fastled_js_is_parent_directory(q)}
       |-> get_file_hash(tree[p])]

(***************************************************************************)
(* The cache file: kind "absent" (no file), "empty" (truncated by open()   *)
(* and not yet holding a complete document: json.load fails on it as on    *)
(* every proper prefix of a document), "text" (not JSON at all), "json"    *)
(* (a complete document).  mtime is the file's modification time.          *)
(***************************************************************************)
NoDoc == PyOther("none")
AbsentFile == [kind |-> "absent", doc |-> NoDoc, mtime |-> 0]

cache_key(u) == <<board_name, "_", u.name>>

(* load_build_cache: json.load of an existing file; every failure is caught
   and yields {}. *)
load_build_cache(cf) ==
    IF cf.kind = "json" THEN cf.doc ELSE PyDict(EmptyFn)


(***************************************************************************)
(* needs_rebuild.  The result is [raised, flag, changed]; raised stands    *)
(* for an uncaught TypeError.                                              *)
(***************************************************************************)
Raised == [raised |-> TRUE, flag |-> FALSE, changed |-> {}]
Result(flag, changed) == [raised |-> FALSE, flag |-> flag, changed |-> changed]

(* Path.rglob("*.[ch]pp"): the suffix is ".cpp" or ".hpp". *)
LibGlobMatches(f) ==
    /\ Len(f.ext) = 3
    /\ f.ext[1] \in {"c", "h"}
    /\ f.ext[2] = "p"
    /\ f.ext[3] = "p"

(* Lines 116-124: some matching library file is newer than the cache file. *)
LibraryNewer(cf, lib) ==
    /\ cf.kind # "absent"
    /\ \E f \in DOMAIN lib : LibGlobMatches(f) /\ lib[f] > cf.mtime

(* Lines 106-108: new or modified files. *)
NewOrModified(current, cached) ==
    {p \in DOMAIN current :
        ~PyIn(p, cached) \/ cached.d[p] # current[p]}

DeletedNone(current, cached) == {}

(* Lines 111-113: deleted files. *)
Deleted(current, cached) == PyIter(cached) \ DOMAIN current

ColdStartNothingChanged(current_files) == Result(TRUE, {})

(* Lines 96-98: no entry under the key, everything counts as changed. *)
ColdStart(current_files) == Result(TRUE, DOMAIN current_files)

needs_rebuild(tree, cf, lib, key) ==
    LET cache_data == load_build_cache(cf)
        current_files == get_example_files_with_hashes(tree)
    IN  IF PyInRaises(cache_data) THEN Raised
        ELSE IF ~PyIn(key, cache_data)
        THEN ColdStart(current_files)
        ELSE LET cached_files == cache_data.d[key]
                 changed_files == NewOrModified(current_files, cached_files)
                                    \cup Deleted(current_files, cached_files)
             IN  IF \/ (DOMAIN current_files # {} /\ PyInRaises(cached_files))
                    \/ PyIterRaises(cached_files)
                 THEN Raised
                 ELSE IF LibraryNewer(cf, lib)
                 THEN Result(TRUE, DOMAIN current_files)
                 ELSE Result(changed_files # {}, changed_files)

(***************************************************************************)
(* update_build_cache, lines 146-147: the document to be saved, or a       *)
(* TypeError when the loaded document is not a mapping.                    *)
(***************************************************************************)
UpdateRaises(cf) == PySetItemRaises(load_build_cache(cf))

UpdatedDocumentAlone(cf, key, current_files) ==
    PyDict([k \in {key} |-> PyDict(current_files)])

UpdatedDocument(cf, key, current_files) ==
    PySetItem(load_build_cache(cf), key, PyDict(current_files))

(***************************************************************************)
(* The working source area <builddir>/src: whether the directory exists    *)
(* and, per relative path, the file copied there (its unit of origin and   *)
(* its content).                                                           *)
(***************************************************************************)
NoFile == [unit |-> NoUnit, content |-> NoContent]
CopyOf(u, c) == [unit |-> u, content |-> c]
NoSrcdir == [exists |-> FALSE, files |-> [p \in Paths |-> NoFile]]

CleanExistingNever(srcdir, clean_existing) == srcdir

(* Lines 162-167: rmtree and mkdir when clean_existing and the directory exists. *)
CleanExisting(srcdir, clean_existing) ==
    IF clean_existing /\ srcdir.exists
    THEN [exists |-> TRUE, files |-> [p \in Paths |-> NoFile]]
    ELSE srcdir

(* Lines 169-180: full sync, every file of the unit not under fastled_js. *)
FullCopy(srcdir, u, tree) ==
    [exists |-> TRUE,
     files |-> [p \in Paths |->
                  IF tree[p] # NoContent /\ ~_fastled_js_is_parent_directory(p)
                  THEN CopyOf(u, tree[p])
                  ELSE srcdir.files[p]]]

(* Lines 181-197: incremental sync of the given relative paths. *)
IncrementalCopy(srcdir, u, tree, changed_files) ==
    [exists |-> TRUE,
     files |-> [p \in Paths |->
                  IF p \in changed_files
                  THEN IF tree[p] # NoContent THEN CopyOf(u, tree[p]) ELSE NoFile
                  ELSE srcdir.files[p]]]

(* sync_example_files(example_path, srcdir, changed_files, clean_existing);
   full = (changed_files is None). *)
sync_example_files(srcdir, u, tree, full, changed_files, clean_existing) ==
    LET cleaned == CleanExisting(srcdir, clean_existing)
    IN  IF full THEN FullCopy(cleaned, u, tree)
        ELSE IncrementalCopy(cleaned, u, tree, changed_files)

SyncStepWithoutForce(srcdir, u, tree, flag, changed_files, force, clean_src_only) ==
    IF flag \/ clean_src_only
    THEN sync_example_files(srcdir, u, tree, TRUE, {}, clean_src_only)
    ELSE IF changed_files # {}
    THEN sync_example_files(srcdir, u, tree, FALSE, changed_files, FALSE)
    ELSE IF ~srcdir.exists
    THEN sync_example_files(srcdir, u, tree, TRUE, {}, FALSE)
    ELSE srcdir

(* Lines 240-257 of compile_for_board_and_example: which sync is made. *)
SyncStep(srcdir, u, tree, flag, changed_files, force, clean_src_only) ==
    IF flag \/ force \/ clean_src_only
    THEN sync_example_files(srcdir, u, tree, TRUE, {}, force \/ clean_src_only)
    ELSE IF changed_files # {}
    THEN sync_example_files(srcdir, u, tree, FALSE, changed_files, FALSE)
    ELSE IF ~srcdir.exists
    THEN sync_example_files(srcdir, u, tree, TRUE, {}, FALSE)
    ELSE srcdir

(***************************************************************************)
(* State.                                                                  *)
(***************************************************************************)
VARIABLES
    unitTree,          \* unit -> (relative path -> content or NoContent)
    libMtime,          \* library source file -> modification time
    now,               \* the clock that stamps modification times
    cacheFile,         \* <builddir>/build_cache.json
    srcdir,            \* <builddir>/src
    ERROR_HAPPENED,    \* module global, line 18
    pc,                \* position of the worker in compile_examples
    examples,          \* compile_examples: the list being built
    idx,               \* compile_examples: index of the current example
    is_first,          \* compile_examples: line 438
    force_rebuild,     \* compile_examples: argument
    clean_src_only,    \* compile_for_board_and_example: argument
    needs_rebuild_flag,\* compile_for_board_and_example: local
    changed_files,     \* compile_for_board_and_example: local
    success,           \* result of _execute_build_command
    cache_data,        \* update_build_cache: the document being saved
    runs,              \* number of compile_examples calls made
    edits,             \* number of edits of unit files made
    okUnits,           \* history: units whose toolchain run exited with 0
    attemptCache,      \* history: the cache file when the attempt started
    fresh,             \* history: see UpdateCompleted
    freshTree,         \* history: see UpdateCompleted
    projects,          \* concurrent_run_v2: args.projects
    verbose,           \* concurrent_run_v2: args.verbose
    USE_FIRST_BUILD_LOCK, \* module global, line 21
    FIRST_BUILD_LOCK,  \* module global, line 20: the task holding it
    max_workers,       \* max_workers of the executor (lines 124, 184)
    main_pc,           \* position of the thread in concurrent_run_v2
    rtn,               \* what concurrent_run_v2 returned
    init_future,       \* state of each create_build_dir future
    build_future,      \* state of each compile_examples future
    as_completed,      \* futures finished and not yet yielded, in order
    task_pc,           \* position of each compile_examples task
    task_idx,          \* compile_examples: index of the current example
    task_is_first,     \* compile_examples: line 438
    task_success,      \* compile_examples: result of the unit
    reported,          \* what concurrent_run_v2 printed for each target
    pool_hist,         \* history of the run, see PoolHistory
    rmtree,            \* robust_rmtree: the call in progress
    create,            \* create_build_dir: the call in progress
    stage,             \* ci-compile.py: the run of the two-stage build
    scenario,          \* runs of the v2 build over several targets
    sync,              \* sync_example_files on a mirrored working area
    defs               \* the defines list shared by the create_build_dir calls

fsVars == <<unitTree, libMtime, now, cacheFile, srcdir>>
loopVars == <<examples, idx, is_first, force_rebuild>>
localVars == <<clean_src_only, needs_rebuild_flag, changed_files, success, cache_data>>
histVars == <<runs, edits, okUnits, attemptCache, fresh, freshTree>>
argVars == <<projects, verbose, USE_FIRST_BUILD_LOCK>>
mainVars == <<main_pc, rtn, reported, max_workers>>
futureVars == <<init_future, build_future, as_completed>>
taskVars == <<task_pc, task_idx, task_is_first, task_success>>
laterVars == <<create, stage, scenario, sync, defs>>
poolVars == <<argVars, FIRST_BUILD_LOCK, mainVars, futureVars, taskVars,
              pool_hist, rmtree, laterVars>>
vars == <<fsVars, ERROR_HAPPENED, pc, loopVars, localVars, histVars, poolVars>>

(* Lists of examples handed to compile_examples: distinct units. *)
ExampleLists ==
    {l \in UNION {[1..n -> Units] : n \in 1..Cardinality(Units)} :
        \A i, j \in DOMAIN l : i # j => l[i] # l[j]}

(* A modification time taken now or one tick later.  A write of the cache
   file is stamped with the clock as it is: the code compares library
   times with it by > only. *)
Stamps == {t \in {now, now + 1} : t <= MaxTime}

example == examples[idx]

InitialTree(u) ==
    IF u = Blink
    THEN [p \in Paths |-> "a"]
    ELSE [p \in Paths |-> IF p = MainIno THEN "b" ELSE NoContent]

NoLocals ==
    /\ clean_src_only = FALSE
    /\ needs_rebuild_flag = FALSE
    /\ changed_files = {}
    /\ success = FALSE
    /\ cache_data = NoDoc

InitProgram ==
    /\ ERROR_HAPPENED = FALSE
    /\ pc = "idle"
    /\ examples = <<>>
    /\ idx = 0
    /\ is_first = FALSE
    /\ force_rebuild = FALSE
    /\ NoLocals
    /\ runs = 0
    /\ edits = 0
    /\ okUnits = {}
    /\ fresh = {}
    /\ freshTree = {}

(* concurrent_run_v2 and robust_rmtree have not been called. *)
NoFutures == <<>>

NoCall ==
    [pc |-> "idle", max_retries |-> 0, delay |-> 0, attempt |-> 0,
     exists |-> FALSE, result |-> "none", failed |-> 0, gone |-> FALSE,
     slept |-> 0]

(* Neither create_build_dir nor ci-compile.py nor a multi-target scenario
   is under way. *)
NoCreate ==
    [pc |-> "idle", board_dir |-> FALSE, needs_install |-> FALSE,
     lib |-> FALSE, ini |-> FALSE, boards |-> FALSE,
     attempt |-> 0, unremoved |-> {}, init_ran |-> FALSE, result |-> "none"]
NoStage ==
    [pc |-> "idle", boards |-> <<>>, example_paths |-> <<>>, b |-> 0, i |-> 0,
     errors |-> <<>>, commands |-> <<>>, results |-> <<>>,
     compilation_errors |-> <<>>, rtn |-> "none"]

(* The targets of a scenario, each with its own build directory, and its
   units: Blink and Fade, and a unit in another directory whose last path
   component is Blink as well, with the same files. *)
ScenarioTargets == {"uno", "esp32"}
FxBlink == [dir |-> "examples/Fx", name |-> "Blink"]
ScenarioUnits == Units \cup {FxBlink}
ScenarioTree(u) == IF u = Fade THEN InitialTree(Fade) ELSE InitialTree(Blink)

NoTask == [pc |-> "none", idx |-> 0]

NoScenario ==
    [pc |-> "idle",
     tree |-> [u \in ScenarioUnits |-> ScenarioTree(u)],
     cache |-> [t \in ScenarioTargets |-> AbsentFile],
     examples |-> <<>>,
     clean_cache |-> FALSE,
     ERROR_HAPPENED |-> FALSE,
     task |-> [t \in ScenarioTargets |-> NoTask],
     decisions |-> [t \in ScenarioTargets |-> <<>>],
     events |-> <<>>,
     failed |-> FALSE]

(* sync_example_files has not been called on a mirrored area, and no
   create_build_dir call shares a defines list. *)
NoSync ==
    [pc |-> "idle", cached |-> [p \in Paths |-> NoContent],
     tree |-> [p \in Paths |-> NoContent], cache |-> AbsentFile,
     lib |-> [f \in LibFiles |-> 0], srcdir |-> NoSrcdir, before |-> NoSrcdir,
     changed_files |-> {}]
NoDefs ==
    [pc |-> "idle", projects |-> <<>>, workers |-> 0, defines |-> {},
     call |-> <<>>]

NoLater ==
    /\ create = NoCreate
    /\ stage = NoStage
    /\ scenario = NoScenario
    /\ sync = NoSync
    /\ defs = NoDefs

NoPool ==
    /\ projects = <<>>
    /\ verbose = FALSE
    /\ USE_FIRST_BUILD_LOCK = FALSE
    /\ FIRST_BUILD_LOCK = 0
    /\ max_workers = 0
    /\ main_pc = "idle"
    /\ rtn = "none"
    /\ reported = NoFutures
    /\ init_future = NoFutures
    /\ build_future = NoFutures
    /\ as_completed = <<>>
    /\ task_pc = NoFutures
    /\ task_idx = NoFutures
    /\ task_is_first = NoFutures
    /\ task_success = NoFutures
    /\ pool_hist = NoFutures

Init ==
    /\ unitTree = [u \in Units |-> InitialTree(u)]
    /\ libMtime = [f \in LibFiles |-> 0]
    /\ now = 0
    /\ cacheFile = AbsentFile
    /\ attemptCache = AbsentFile
    /\ srcdir = NoSrcdir
    /\ InitProgram
    /\ NoPool
    /\ rmtree = NoCall
    /\ NoLater

(***************************************************************************)
(* The program: compile_examples and compile_for_board_and_example.        *)
(***************************************************************************)

FileAfterLoadCreates(cf) ==
    IF cf.kind = "absent" THEN [kind |-> "empty", doc |-> NoDoc, mtime |-> now] ELSE cf

(* load_build_cache opens the file for reading only (lines 50-52). *)
FileAfterLoad(cf) == cf

UpdatesCacheAlways(ok) == TRUE

(* Line 300: the cache is updated on a successful build only. *)
UpdatesCache(ok) == ok

FlagAfterBuildAlways(flag, ok) == TRUE

(* Lines 359-367 and 481: a failed build sets the flag. *)
FlagAfterBuild(flag, ok) == flag \/ ~ok

(* compile_examples is called (lines 416-438). *)
CompileExamples(exs, force) ==
    /\ pc = "idle"
    /\ runs < MaxRuns
    /\ runs' = runs + 1
    /\ examples' = exs
    /\ force_rebuild' = force
    /\ is_first' = TRUE
    /\ idx' = 1
    /\ pc' = "loop"
    /\ UNCHANGED <<fsVars, ERROR_HAPPENED, localVars>>
    /\ UNCHANGED <<edits, okUnits, attemptCache, fresh, freshTree>>
    /\ UNCHANGED poolVars

(* Lines 440-453: the head of the loop. *)
LoopHead ==
    /\ pc = "loop"
    /\ IF idx > Len(examples) \/ ERROR_HAPPENED
       THEN /\ pc' = "idle"
            /\ examples' = <<>>
            /\ idx' = 0
            /\ is_first' = FALSE
            /\ force_rebuild' = FALSE
            /\ UNCHANGED clean_src_only
       ELSE /\ pc' = "decide"
            /\ clean_src_only' = (~is_first /\ ~force_rebuild)
            /\ UNCHANGED loopVars
    /\ UNCHANGED <<fsVars, ERROR_HAPPENED, histVars>>
    /\ UNCHANGED <<needs_rebuild_flag, changed_files, success, cache_data>>
    /\ UNCHANGED poolVars

(* Lines 232-238: the rebuild decision. *)
Decide ==
    /\ pc = "decide"
    /\ attemptCache' = cacheFile
    /\ IF force_rebuild
       THEN /\ needs_rebuild_flag' = TRUE
            /\ changed_files' = {}
            /\ pc' = "sync"
            /\ UNCHANGED cacheFile
       ELSE LET r == needs_rebuild(unitTree[example], cacheFile, libMtime,
                                   cache_key(example))
            IN  /\ cacheFile' = FileAfterLoad(cacheFile)
                /\ needs_rebuild_flag' = r.flag
                /\ changed_files' = r.changed
                /\ pc' = IF r.raised THEN "raised" ELSE "sync"
    /\ UNCHANGED <<unitTree, libMtime, now, srcdir>>
    /\ UNCHANGED <<ERROR_HAPPENED, loopVars, clean_src_only, success, cache_data>>
    /\ UNCHANGED <<runs, edits, okUnits, fresh, freshTree>>
    /\ UNCHANGED poolVars

(* Lines 240-257: the working source area is synced. *)
Sync ==
    /\ pc = "sync"
    /\ srcdir' = SyncStep(srcdir, example, unitTree[example], needs_rebuild_flag,
                          changed_files, force_rebuild, clean_src_only)
    /\ pc' = "build"
    /\ UNCHANGED <<unitTree, libMtime, now, cacheFile>>
    /\ UNCHANGED <<ERROR_HAPPENED, loopVars, localVars, histVars>>
    /\ UNCHANGED poolVars

(* Lines 291-298 and 308-377: the toolchain runs and exits with rc. *)
ExecuteBuild(rc) ==
    /\ pc = "build"
    /\ success' = (rc = 0)
    /\ ERROR_HAPPENED' = FlagAfterBuild(ERROR_HAPPENED, rc = 0)
    /\ okUnits' = IF rc = 0 THEN okUnits \cup {example} ELSE okUnits
    /\ pc' = IF UpdatesCache(rc = 0) THEN "update" ELSE "ret"
    /\ UNCHANGED <<fsVars, loopVars>>
    /\ UNCHANGED <<clean_src_only, needs_rebuild_flag, changed_files, cache_data>>
    /\ UNCHANGED <<runs, edits, attemptCache, fresh, freshTree>>
    /\ UNCHANGED poolVars

(* Lines 302-303 and 146-147: fingerprint, load, set the entry. *)
UpdateBuildCache ==
    /\ pc = "update"
    /\ LET current_files == get_example_files_with_hashes(unitTree[example])
       IN  IF UpdateRaises(cacheFile)
           THEN /\ pc' = "raised"
                /\ UNCHANGED cache_data
           ELSE /\ pc' = "save"
                /\ cache_data' = UpdatedDocument(cacheFile, cache_key(example),
                                                 current_files)
    /\ cacheFile' = FileAfterLoad(cacheFile)
    /\ UNCHANGED <<unitTree, libMtime, now, srcdir>>
    /\ UNCHANGED <<ERROR_HAPPENED, loopVars, histVars>>
    /\ UNCHANGED <<clean_src_only, needs_rebuild_flag, changed_files, success>>
    /\ UNCHANGED poolVars

(* save_build_cache, line 62: open(cache_file, 'w') creates or truncates. *)
SaveOpen ==
    /\ pc = "save"
    /\ cacheFile' = [kind |-> "empty", doc |-> NoDoc, mtime |-> now]
    /\ pc' = "dump"
    /\ UNCHANGED <<unitTree, libMtime, now, srcdir>>
    /\ UNCHANGED <<ERROR_HAPPENED, loopVars, localVars, histVars>>
    /\ UNCHANGED poolVars

(* The units whose entry is stored under the same key as u's. *)
SameKey(u) == {v \in Units : cache_key(v) = cache_key(u)}

(* update_build_cache(u, fp) has completed; fp is the fingerprint of the
   unit as it is now. *)
UpdateCompleted(u) ==
    cache_data.d[cache_key(u)] = PyDict(get_example_files_with_hashes(unitTree[u]))

(* Lines 63-65: the document is complete and the file is closed. *)
SaveClose ==
    /\ pc = "dump"
    /\ cacheFile' = [kind |-> "json", doc |-> cache_data, mtime |-> now]
    /\ pc' = "ret"
    /\ fresh' = (fresh \ SameKey(example))
                   \cup (IF UpdateCompleted(example) THEN {example} ELSE {})
    /\ freshTree' = (freshTree \ {example})
                   \cup (IF UpdateCompleted(example) THEN {example} ELSE {})
    /\ UNCHANGED <<unitTree, libMtime, now, srcdir>>
    /\ UNCHANGED <<ERROR_HAPPENED, loopVars, localVars>>
    /\ UNCHANGED <<runs, edits, okUnits, attemptCache>>
    /\ UNCHANGED poolVars

(* Lines 305 and 478-487: back in compile_examples. *)
UnitDone ==
    /\ pc = "ret"
    /\ is_first' = FALSE
    /\ ERROR_HAPPENED' = (ERROR_HAPPENED \/ ~success)
    /\ pc' = IF success THEN "loop" ELSE "idle"
    /\ idx' = IF success THEN idx + 1 ELSE 0
    /\ examples' = IF success THEN examples ELSE <<>>
    /\ force_rebuild' = (success /\ force_rebuild)
    /\ clean_src_only' = FALSE
    /\ needs_rebuild_flag' = FALSE
    /\ changed_files' = {}
    /\ success' = FALSE
    /\ cache_data' = NoDoc
    /\ attemptCache' = AbsentFile
    /\ UNCHANGED <<fsVars, runs, edits, okUnits, fresh, freshTree>>
    /\ UNCHANGED poolVars

(* The process ends after a failure or an uncaught exception and a new one
   is started: the module is loaded again (line 18). *)
NewProcess ==
    /\ \/ pc = "idle" /\ ERROR_HAPPENED
       \/ pc = "raised"
    /\ pc' = "idle"
    /\ ERROR_HAPPENED' = FALSE
    /\ examples' = <<>>
    /\ idx' = 0
    /\ is_first' = FALSE
    /\ force_rebuild' = FALSE
    /\ clean_src_only' = FALSE
    /\ needs_rebuild_flag' = FALSE
    /\ changed_files' = {}
    /\ success' = FALSE
    /\ cache_data' = NoDoc
    /\ UNCHANGED <<fsVars, histVars>>
    /\ UNCHANGED poolVars

(***************************************************************************)
(* The environment.                                                        *)
(***************************************************************************)

(* The process is killed between open() and the end of json.dump. *)
Crash ==
    /\ pc = "dump"
    /\ fresh' = {}
    /\ pc' = "idle"
    /\ ERROR_HAPPENED' = FALSE
    /\ examples' = <<>>
    /\ idx' = 0
    /\ is_first' = FALSE
    /\ force_rebuild' = FALSE
    /\ clean_src_only' = FALSE
    /\ needs_rebuild_flag' = FALSE
    /\ changed_files' = {}
    /\ success' = FALSE
    /\ cache_data' = NoDoc
    /\ attemptCache' = AbsentFile
    /\ UNCHANGED <<fsVars, runs, edits, okUnits, freshTree>>
    /\ UNCHANGED poolVars

(* The environment acts between two runs and while the toolchain runs; the
   other steps of the worker are short. *)
EnvironmentActs == pc \in {"idle", "build"}

(* The files the environment edits: the sources of the units. *)
EditedPaths == {MainIno, UtilH}

(* A file of a unit is written, created or deleted. *)
EditFile(u, p, c) ==
    /\ EnvironmentActs
    /\ edits < MaxEdits
    /\ c # unitTree[u][p]
    /\ edits' = edits + 1
    /\ unitTree' = [unitTree EXCEPT ![u][p] = c]
    /\ LET changed == get_example_files_with_hashes(unitTree'[u])
                        # get_example_files_with_hashes(unitTree[u])
       IN  /\ fresh' = IF changed THEN fresh \ {u} ELSE fresh
           /\ freshTree' = IF changed THEN freshTree \ {u} ELSE freshTree
    /\ UNCHANGED <<libMtime, now, cacheFile, srcdir>>
    /\ UNCHANGED <<ERROR_HAPPENED, pc, loopVars, localVars>>
    /\ UNCHANGED <<runs, okUnits, attemptCache>>
    /\ UNCHANGED poolVars

(* A library source file is modified, between two runs. *)
TouchLibrary(f) ==
    /\ pc = "idle"
    /\ \E t \in Stamps :
          /\ now' = t
          /\ libMtime' = [libMtime EXCEPT ![f] = t]
          /\ fresh' = IF LibGlobMatches(f) /\ t > cacheFile.mtime THEN {} ELSE fresh
    /\ UNCHANGED <<unitTree, cacheFile, srcdir>>
    /\ UNCHANGED <<ERROR_HAPPENED, pc, loopVars, localVars>>
    /\ UNCHANGED <<runs, edits, okUnits, attemptCache, freshTree>>
    /\ UNCHANGED poolVars

(* The steps of the worker. *)
WorkerStep ==
    \/ LoopHead
    \/ Decide
    \/ Sync
    \/ \E rc \in {0, 1} : ExecuteBuild(rc)
    \/ UpdateBuildCache
    \/ SaveOpen
    \/ SaveClose
    \/ UnitDone
    \/ NewProcess

EditStep ==
    \E u \in Units, p \in EditedPaths, c \in Contents \cup {NoContent} :
        EditFile(u, p, c)

(***************************************************************************)
(* Spec: runs with and without force_rebuild, interrupted saves and edits  *)
(* of the unit trees; the library sources stay as they are.                *)
(***************************************************************************)
Next ==
    \/ \E exs \in ExampleLists, force \in BOOLEAN : CompileExamples(exs, force)
    \/ WorkerStep
    \/ Crash
    \/ EditStep

Spec == Init /\ [][Next]_vars

(***************************************************************************)
(* SpecLibrary: incremental runs (force_rebuild = False), interrupted      *)
(* saves and, between two runs, edits of the unit trees and modifications  *)
(* of library sources.                                                     *)
(***************************************************************************)
NextLibrary ==
    \/ \E exs \in ExampleLists : CompileExamples(exs, FALSE)
    \/ WorkerStep
    \/ Crash
    \/ (pc = "idle" /\ EditStep)
    \/ \E f \in LibFiles : TouchLibrary(f)

SpecLibrary == Init /\ [][NextLibrary]_vars

(***************************************************************************)
(* SpecForeign: the build directory holds a cache file that this program   *)
(* did not write (another version of the tool, an editor): text that is    *)
(* not JSON, a document that is not a mapping, or a mapping whose entry    *)
(* for Blink is not a mapping.                                             *)
(***************************************************************************)
ForeignKinds ==
    {"text", "list", "int", "none", "str",
     "entry_list", "entry_int", "entry_none", "entry_str"}

EntryDocument(entry) == PyDict([k \in {cache_key(Blink)} |-> entry])

ForeignDocument(kind) ==
    CASE kind = "list" -> PyOther("list")
      [] kind = "int" -> PyOther("int")
      [] kind = "none" -> PyOther("none")
      [] kind = "str" -> PyStr(<<"v", "1">>)
      [] kind = "entry_list" -> EntryDocument(PyOther("list"))
      [] kind = "entry_int" -> EntryDocument(PyOther("int"))
      [] kind = "entry_none" -> EntryDocument(PyOther("none"))
      [] kind = "entry_str" -> EntryDocument(PyStr(<<"v", "1">>))
      [] OTHER -> NoDoc

ForeignFile(kind) ==
    [kind |-> IF kind = "text" THEN "text" ELSE "json",
     doc |-> ForeignDocument(kind),
     mtime |-> 0]

InitForeign ==
    /\ unitTree = [u \in Units |-> InitialTree(u)]
    /\ libMtime = [f \in LibFiles |-> 0]
    /\ now = 0
    /\ \E kind \in ForeignKinds : cacheFile = ForeignFile(kind)
    /\ attemptCache = AbsentFile
    /\ srcdir = NoSrcdir
    /\ InitProgram
    /\ NoPool
    /\ rmtree = NoCall
    /\ NoLater

NextForeign ==
    \/ \E exs \in ExampleLists : CompileExamples(exs, FALSE)
    \/ WorkerStep

SpecForeign == InitForeign /\ [][NextForeign]_vars

(***************************************************************************)
(* concurrent_run_v2: the initialization phase and the build phase, each   *)
(* a ThreadPoolExecutor with one future per entry of args.projects.        *)
(***************************************************************************)

(* The boards of args.projects; the list comes from args.boards.split(",")
   and may name a board more than once. *)
Boards == {"uno", "esp32"}

ProjectLists == UNION {[1..n -> Boards] : n \in 1..MaxProjects}

(* args.examples: the units are built by every target in the same order,
   and the pool does not look at which units they are. *)
PoolExampleLists == {<<Blink>>, <<Blink, Fade>>}

(* The futures of a pool, by position in args.projects. *)
Tasks == DOMAIN projects

(* Line 121. *)
ParallelWorkers(parallel_init, n) ==
    IF ~parallel_init THEN 1 ELSE IF n < 4 THEN n ELSE 4

(* Line 179, half being cpu_count() // 2. *)
NumCpus(half, n) ==
    LET least == IF half < n THEN half ELSE n
    IN  IF least < 1 THEN 1 ELSE least

(* The variables of the single-target model, but for the failure flag. *)
targetVars == <<fsVars, pc, loopVars, localVars, histVars>>

(* History of a run: for each future the units it built, how often
   _run_verbose_build ran, whether an initialization failed or raised, and
   the initializations pending when the first one failed. *)
PoolHistory(n) ==
    [built |-> [i \in 1..n |-> 0],
     verbose_runs |-> 0,
     init_failed |-> FALSE,
     pending_at_failure |-> {}]

InitPool ==
    /\ unitTree = [u \in Units |-> InitialTree(u)]
    /\ libMtime = [f \in LibFiles |-> 0]
    /\ now = 0
    /\ cacheFile = AbsentFile
    /\ attemptCache = AbsentFile
    /\ srcdir = NoSrcdir
    /\ ERROR_HAPPENED = FALSE
    /\ pc = "idle"
    /\ examples \in PoolExampleLists
    /\ idx = 0
    /\ is_first = FALSE
    /\ force_rebuild = FALSE
    /\ NoLocals
    /\ runs = 0
    /\ edits = 0
    /\ okUnits = {}
    /\ fresh = {}
    /\ freshTree = {}
    /\ projects \in ProjectLists
    /\ verbose \in BOOLEAN
    /\ USE_FIRST_BUILD_LOCK \in BOOLEAN
    /\ FIRST_BUILD_LOCK = 0
    /\ max_workers = 0
    /\ main_pc = "create_first"
    /\ rtn = "none"
    /\ reported = [i \in Tasks |-> "none"]
    /\ init_future = [i \in Tasks |-> "none"]
    /\ build_future = [i \in Tasks |-> "none"]
    /\ as_completed = <<>>
    /\ task_pc = [i \in Tasks |-> "none"]
    /\ task_idx = [i \in Tasks |-> 0]
    /\ task_is_first = [i \in Tasks |-> FALSE]
    /\ task_success = [i \in Tasks |-> FALSE]
    /\ pool_hist = PoolHistory(Len(projects))
    /\ rmtree = NoCall
    /\ NoLater

(* The states of a future. *)
Running(fut) == {i \in DOMAIN fut : fut[i] = "running"}
Pending(fut) == {i \in DOMAIN fut : fut[i] = "pending"}
Finished(fut) == \A i \in DOMAIN fut : fut[i] \in {"ok", "failed", "raised"}

DequeuesUnbounded(fut, i, n) ==
    /\ fut[i] = "pending"
    /\ \A j \in Pending(fut) : i <= j

(* A pool thread is free and future i is the head of the work queue. *)
Dequeues(fut, i, n) ==
    /\ fut[i] = "pending"
    /\ \A j \in Pending(fut) : i <= j
    /\ Cardinality(Running(fut)) < n

(* f.cancel() for every future that is not done: a pending future is
   cancelled, a running one is not. *)
Cancel(fut) ==
    [i \in DOMAIN fut |-> IF fut[i] = "pending" THEN "cancelled" ELSE fut[i]]

(* A future that finishes is queued for the thread that iterates
   as_completed; the iterator is dropped when its loop is left. *)
Notify(i) ==
    IF main_pc \in {"init_wait", "build_wait"}
    THEN Append(as_completed, i) ELSE as_completed

ShutdownReturnsAtOnce(fut) == TRUE

(* Leaving the with block: shutdown(wait=True). *)
ShutdownReturns(fut) == Running(fut) = {} /\ Pending(fut) = {}

(* Lines 97-118: create_build_dir for projects[0], called directly. *)
CreateFirst(outcome) ==
    /\ main_pc = "create_first"
    /\ main_pc' = IF outcome = "ok" THEN "init_submit" ELSE "done"
    /\ rtn' = CASE outcome = "ok" -> rtn
                [] outcome = "failed" -> "1"
                [] OTHER -> "exception"
    /\ pool_hist' = [pool_hist EXCEPT !.init_failed = (outcome # "ok")]
    /\ UNCHANGED <<targetVars, ERROR_HAPPENED, argVars, FIRST_BUILD_LOCK>>
    /\ UNCHANGED <<reported, max_workers, futureVars, taskVars, rmtree, laterVars>>

(* Lines 120-141: one create_build_dir future per project. *)
InitSubmit(parallel_init) ==
    /\ main_pc = "init_submit"
    /\ max_workers' = ParallelWorkers(parallel_init, Len(projects))
    /\ init_future' = [i \in Tasks |-> "pending"]
    /\ main_pc' = "init_wait"
    /\ UNCHANGED <<targetVars, ERROR_HAPPENED, argVars, FIRST_BUILD_LOCK>>
    /\ UNCHANGED <<rtn, reported, build_future, as_completed, taskVars>>
    /\ UNCHANGED <<pool_hist, rmtree, laterVars>>

(* A pool thread starts create_build_dir for projects[i]. *)
InitStart(i) ==
    /\ Dequeues(init_future, i, max_workers)
    /\ init_future' = [init_future EXCEPT ![i] = "running"]
    /\ UNCHANGED <<targetVars, ERROR_HAPPENED, argVars, FIRST_BUILD_LOCK>>
    /\ UNCHANGED <<mainVars, build_future, as_completed, taskVars>>
    /\ UNCHANGED <<pool_hist, rmtree, laterVars>>

(* create_build_dir for projects[i] returns (True, _), returns (False, _)
   or raises. *)
InitFinish(i, outcome) ==
    /\ init_future[i] = "running"
    /\ init_future' = [init_future EXCEPT ![i] = outcome]
    /\ as_completed' = Notify(i)
    /\ pool_hist' =
          IF outcome = "ok" \/ pool_hist.init_failed
          THEN pool_hist
          ELSE [pool_hist EXCEPT !.init_failed = TRUE,
                                 !.pending_at_failure = Pending(init_future)]
    /\ UNCHANGED <<targetVars, ERROR_HAPPENED, argVars, FIRST_BUILD_LOCK>>
    /\ UNCHANGED <<mainVars, build_future, taskVars, rmtree, laterVars>>

(* Lines 146-152 and 158-163: as_completed yields the next finished
   future. *)
InitObserve ==
    /\ main_pc = "init_wait"
    /\ as_completed # <<>>
    /\ as_completed' = Tail(as_completed)
    /\ main_pc' = IF init_future[Head(as_completed)] = "ok"
                  THEN "init_wait" ELSE "init_cancel"
    /\ UNCHANGED <<targetVars, ERROR_HAPPENED, argVars, FIRST_BUILD_LOCK>>
    /\ UNCHANGED <<rtn, reported, max_workers, init_future, build_future, taskVars>>
    /\ UNCHANGED <<pool_hist, rmtree, laterVars>>

(* Lines 153-157 and 164-168: the remaining futures are cancelled. *)
InitCancel ==
    /\ main_pc = "init_cancel"
    /\ init_future' = Cancel(init_future)
    /\ as_completed' = <<>>
    /\ main_pc' = "init_shutdown"
    /\ UNCHANGED <<targetVars, ERROR_HAPPENED, argVars, FIRST_BUILD_LOCK>>
    /\ UNCHANGED <<rtn, reported, max_workers, build_future, taskVars>>
    /\ UNCHANGED <<pool_hist, rmtree, laterVars>>

(* return 1 inside the with block: the pool is shut down first. *)
InitShutdown ==
    /\ main_pc = "init_shutdown"
    /\ ShutdownReturns(init_future)
    /\ main_pc' = "done"
    /\ rtn' = "1"
    /\ UNCHANGED <<targetVars, ERROR_HAPPENED, argVars, FIRST_BUILD_LOCK>>
    /\ UNCHANGED <<reported, max_workers, futureVars, taskVars, pool_hist, rmtree, laterVars>>

(* Lines 169-184: every initialization succeeded. *)
InitCompleted ==
    /\ main_pc = "init_wait"
    /\ as_completed = <<>>
    /\ Finished(init_future)
    /\ main_pc' = "build_submit"
    /\ UNCHANGED <<targetVars, ERROR_HAPPENED, argVars, FIRST_BUILD_LOCK>>
    /\ UNCHANGED <<rtn, reported, max_workers, futureVars, taskVars, pool_hist, rmtree, laterVars>>

(* Lines 179-198: one compile_examples future per project; half is
   cpu_count() // 2. *)
BuildSubmit(half) ==
    /\ main_pc = "build_submit"
    /\ max_workers' = NumCpus(half, Len(projects))
    /\ build_future' = [i \in Tasks |-> "pending"]
    /\ main_pc' = "build_wait"
    /\ UNCHANGED <<targetVars, ERROR_HAPPENED, argVars, FIRST_BUILD_LOCK>>
    /\ UNCHANGED <<rtn, reported, init_future, as_completed, taskVars>>
    /\ UNCHANGED <<pool_hist, rmtree, laterVars>>

(* A pool thread starts compile_examples for projects[i] (lines 435-438). *)
TaskStart(i) ==
    /\ Dequeues(build_future, i, max_workers)
    /\ build_future' = [build_future EXCEPT ![i] = "running"]
    /\ task_pc' = [task_pc EXCEPT ![i] = "loop"]
    /\ task_idx' = [task_idx EXCEPT ![i] = 1]
    /\ task_is_first' = [task_is_first EXCEPT ![i] = TRUE]
    /\ UNCHANGED <<targetVars, ERROR_HAPPENED, argVars, FIRST_BUILD_LOCK>>
    /\ UNCHANGED <<mainVars, init_future, as_completed, task_success>>
    /\ UNCHANGED <<pool_hist, rmtree, laterVars>>

TakesLockNever(first) == FALSE

(* Line 456. *)
TakesLock(first) == first /\ USE_FIRST_BUILD_LOCK

(* Lines 440-456: the head of the loop of task i. *)
TaskLoopHead(i) ==
    /\ task_pc[i] = "loop"
    /\ IF task_idx[i] > Len(examples) \/ ERROR_HAPPENED
       THEN /\ task_pc' = [task_pc EXCEPT ![i] = "done"]
            /\ build_future' = [build_future EXCEPT ![i] = "ok"]
            /\ as_completed' = Notify(i)
            /\ task_idx' = [task_idx EXCEPT ![i] = 0]
            /\ task_is_first' = [task_is_first EXCEPT ![i] = FALSE]
            /\ task_success' = [task_success EXCEPT ![i] = FALSE]
       ELSE /\ task_pc' = [task_pc EXCEPT ![i] =
                              IF TakesLock(task_is_first[i])
                              THEN "lock" ELSE "compile"]
            /\ UNCHANGED <<build_future, as_completed, task_idx>>
            /\ UNCHANGED <<task_is_first, task_success>>
    /\ UNCHANGED <<targetVars, ERROR_HAPPENED, argVars, FIRST_BUILD_LOCK>>
    /\ UNCHANGED <<mainVars, init_future, pool_hist, rmtree, laterVars>>

(* Line 457: with FIRST_BUILD_LOCK. *)
TaskAcquire(i) ==
    /\ task_pc[i] = "lock"
    /\ FIRST_BUILD_LOCK = 0
    /\ FIRST_BUILD_LOCK' = i
    /\ task_pc' = [task_pc EXCEPT ![i] = "compile"]
    /\ UNCHANGED <<targetVars, ERROR_HAPPENED, argVars, mainVars, futureVars>>
    /\ UNCHANGED <<task_idx, task_is_first, task_success, pool_hist, rmtree, laterVars>>

(* compile_for_board_and_example up to line 332: the toolchain is
   started. *)
TaskPopen(i) ==
    /\ task_pc[i] = "compile"
    /\ task_pc' = [task_pc EXCEPT ![i] = "build"]
    /\ UNCHANGED <<targetVars, ERROR_HAPPENED, argVars, FIRST_BUILD_LOCK>>
    /\ UNCHANGED <<mainVars, futureVars, task_idx, task_is_first>>
    /\ UNCHANGED <<task_success, pool_hist, rmtree, laterVars>>

(* Lines 353-365 and 376-377: the toolchain exits with rc. *)
TaskToolchainExit(i, rc) ==
    /\ task_pc[i] = "build"
    /\ task_pc' = [task_pc EXCEPT ![i] =
                      CASE rc = 0 -> "update"
                        [] rc # 0 /\ verbose /\ ~ERROR_HAPPENED -> "set_flag"
                        [] OTHER -> "ret"]
    /\ ERROR_HAPPENED' = (ERROR_HAPPENED \/ (rc # 0 /\ ~verbose))
    /\ task_success' = [task_success EXCEPT ![i] = FALSE]
    /\ UNCHANGED <<targetVars, argVars, FIRST_BUILD_LOCK, mainVars, futureVars>>
    /\ UNCHANGED <<task_idx, task_is_first, pool_hist, rmtree, laterVars>>

(* Lines 367-372: the flag is set and _run_verbose_build starts. *)
TaskSetFlag(i) ==
    /\ task_pc[i] = "set_flag"
    /\ ERROR_HAPPENED' = TRUE
    /\ task_pc' = [task_pc EXCEPT ![i] = "verbose"]
    /\ pool_hist' = [pool_hist EXCEPT !.verbose_runs = @ + 1]
    /\ UNCHANGED <<targetVars, argVars, FIRST_BUILD_LOCK, mainVars, futureVars>>
    /\ UNCHANGED <<task_idx, task_is_first, task_success, rmtree, laterVars>>

(* Lines 412-413 and 373-374: the verbose run has ended. *)
TaskVerboseDone(i) ==
    /\ task_pc[i] = "verbose"
    /\ task_pc' = [task_pc EXCEPT ![i] = "ret"]
    /\ UNCHANGED <<targetVars, ERROR_HAPPENED, argVars, FIRST_BUILD_LOCK>>
    /\ UNCHANGED <<mainVars, futureVars, task_idx, task_is_first>>
    /\ UNCHANGED <<task_success, pool_hist, rmtree, laterVars>>

(* The lock after the with block of line 457 has been left by task i. *)
Released(i) == IF FIRST_BUILD_LOCK = i THEN 0 ELSE FIRST_BUILD_LOCK

(* Lines 300-305: update_build_cache returns, or raises as it does on a
   cache document that is not a mapping. *)
TaskUpdateDone(i, raises) ==
    /\ task_pc[i] = "update"
    /\ IF raises
       THEN /\ task_pc' = [task_pc EXCEPT ![i] = "done"]
            /\ build_future' = [build_future EXCEPT ![i] = "raised"]
            /\ as_completed' = Notify(i)
            /\ FIRST_BUILD_LOCK' = Released(i)
            /\ task_idx' = [task_idx EXCEPT ![i] = 0]
            /\ task_is_first' = [task_is_first EXCEPT ![i] = FALSE]
            /\ UNCHANGED <<task_success, pool_hist>>
       ELSE /\ task_pc' = [task_pc EXCEPT ![i] = "ret"]
            /\ task_success' = [task_success EXCEPT ![i] = TRUE]
            /\ pool_hist' = [pool_hist EXCEPT !.built[i] = @ + 1]
            /\ UNCHANGED <<build_future, as_completed, FIRST_BUILD_LOCK>>
            /\ UNCHANGED <<task_idx, task_is_first>>
    /\ UNCHANGED <<targetVars, ERROR_HAPPENED, argVars, mainVars, init_future>>
    /\ UNCHANGED <<rmtree, laterVars>>

(* Lines 478-485: back in compile_examples. *)
TaskUnitDone(i) ==
    /\ task_pc[i] = "ret"
    /\ FIRST_BUILD_LOCK' = Released(i)
    /\ task_is_first' = [task_is_first EXCEPT ![i] = FALSE]
    /\ task_success' = [task_success EXCEPT ![i] = FALSE]
    /\ ERROR_HAPPENED' = (ERROR_HAPPENED \/ ~task_success[i])
    /\ IF task_success[i]
       THEN /\ task_pc' = [task_pc EXCEPT ![i] = "loop"]
            /\ task_idx' = [task_idx EXCEPT ![i] = @ + 1]
            /\ UNCHANGED <<build_future, as_completed>>
       ELSE /\ task_pc' = [task_pc EXCEPT ![i] = "done"]
            /\ build_future' = [build_future EXCEPT ![i] = "failed"]
            /\ as_completed' = Notify(i)
            /\ task_idx' = [task_idx EXCEPT ![i] = 0]
    /\ UNCHANGED <<targetVars, argVars, mainVars, init_future>>
    /\ UNCHANGED <<pool_hist, rmtree, laterVars>>

(* Lines 200-207 and 214-219: as_completed yields the next finished
   future and its outcome is printed. *)
BuildObserve ==
    /\ main_pc = "build_wait"
    /\ as_completed # <<>>
    /\ LET f == Head(as_completed)
       IN  /\ reported' = [reported EXCEPT ![f] =
                              IF build_future[f] = "ok"
                              THEN "success" ELSE "failed"]
           /\ main_pc' = IF build_future[f] = "ok"
                         THEN "build_wait" ELSE "build_cancel"
    /\ as_completed' = Tail(as_completed)
    /\ UNCHANGED <<targetVars, ERROR_HAPPENED, argVars, FIRST_BUILD_LOCK>>
    /\ UNCHANGED <<rtn, max_workers, init_future, build_future, taskVars>>
    /\ UNCHANGED <<pool_hist, rmtree, laterVars>>

(* Lines 209-213 and 221-225: the remaining futures are cancelled. *)
BuildCancel ==
    /\ main_pc = "build_cancel"
    /\ build_future' = Cancel(build_future)
    /\ as_completed' = <<>>
    /\ main_pc' = "build_shutdown"
    /\ UNCHANGED <<targetVars, ERROR_HAPPENED, argVars, FIRST_BUILD_LOCK>>
    /\ UNCHANGED <<rtn, reported, max_workers, init_future, taskVars>>
    /\ UNCHANGED <<pool_hist, rmtree, laterVars>>

(* Every future has been yielded: the loop of line 200 ends. *)
BuildCompleted ==
    /\ main_pc = "build_wait"
    /\ as_completed = <<>>
    /\ Finished(build_future)
    /\ main_pc' = "build_shutdown"
    /\ UNCHANGED <<targetVars, ERROR_HAPPENED, argVars, FIRST_BUILD_LOCK>>
    /\ UNCHANGED <<rtn, reported, max_workers, futureVars, taskVars, pool_hist, rmtree, laterVars>>

(* The list compilation_errors is not empty. *)
compilation_errors == \E i \in Tasks : reported[i] = "failed"

(* Lines 226-266: the pool is shut down and the status is returned. *)
BuildShutdown ==
    /\ main_pc = "build_shutdown"
    /\ ShutdownReturns(build_future)
    /\ main_pc' = "done"
    /\ rtn' = IF ERROR_HAPPENED \/ compilation_errors THEN "1" ELSE "0"
    /\ UNCHANGED <<targetVars, ERROR_HAPPENED, argVars, FIRST_BUILD_LOCK>>
    /\ UNCHANGED <<reported, max_workers, futureVars, taskVars, pool_hist, rmtree, laterVars>>

InitOutcomes == {"ok", "failed", "raised"}

(***************************************************************************)
(* SpecPool: one call of concurrent_run_v2 in a new process.               *)
(***************************************************************************)
NextPool ==
    \/ \E outcome \in InitOutcomes : CreateFirst(outcome)
    \/ \E parallel_init \in BOOLEAN : InitSubmit(parallel_init)
    \/ \E i \in Tasks : InitStart(i)
    \/ \E i \in Tasks, outcome \in InitOutcomes : InitFinish(i, outcome)
    \/ InitObserve
    \/ InitCancel
    \/ InitShutdown
    \/ InitCompleted
    \/ \E half \in 0..MaxCpus : BuildSubmit(half)
    \/ \E i \in Tasks : TaskStart(i)
    \/ \E i \in Tasks : TaskLoopHead(i)
    \/ \E i \in Tasks : TaskAcquire(i)
    \/ \E i \in Tasks : TaskPopen(i)
    \/ \E i \in Tasks, rc \in {0, 1} : TaskToolchainExit(i, rc)
    \/ \E i \in Tasks : TaskSetFlag(i)
    \/ \E i \in Tasks : TaskVerboseDone(i)
    \/ \E i \in Tasks, raises \in BOOLEAN : TaskUpdateDone(i, raises)
    \/ \E i \in Tasks : TaskUnitDone(i)
    \/ BuildObserve
    \/ BuildCancel
    \/ BuildCompleted
    \/ BuildShutdown

SpecPool == InitPool /\ [][NextPool]_vars

(***************************************************************************)
(* robust_rmtree of ci/ci/create_build_dir_v2.py: one call on a path that  *)
(* another process may remove at any time.                                 *)
(***************************************************************************)

(* All variables but rmtree. *)
otherVars ==
    <<targetVars, ERROR_HAPPENED, argVars, FIRST_BUILD_LOCK, mainVars,
      futureVars, taskVars, pool_hist, laterVars>>

(* What a call of shutil.rmtree(path, onerror=remove_readonly) can do: it
   removes the tree, raises OSError, or raises another exception.  On a
   path that is gone os.lstat raises FileNotFoundError, an OSError, and
   remove_readonly raises it again. *)
RmtreeOutcomes(exists) ==
    IF exists THEN {"removed", "OSError", "Exception"} ELSE {"OSError"}

(* Line 114: the sleep before the next attempt. *)
Backoff(delay, attempt) == delay * (2 ^ attempt)

(* The call has returned result; failed counts the removal attempts that
   raised and gone tells whether the path existed at the return. *)
Returned(call, result, failed) ==
    [call EXCEPT !.pc = "returned", !.result = result, !.failed = failed,
                 !.gone = ~call.exists]

IsLastAttemptNever(attempt, max_retries) == FALSE

(* Line 102. *)
IsLastAttempt(attempt, max_retries) == attempt = max_retries - 1

(* Lines 91-95: the call, the test of path.exists() and the entry of the
   loop. *)
RobustRmtree(max_retries, delay, exists) ==
    /\ rmtree.pc = "idle"
    /\ LET call == [NoCall EXCEPT !.max_retries = max_retries,
                                  !.delay = delay,
                                  !.exists = exists]
       IN  rmtree' =
              IF ~exists THEN [call EXCEPT !.pc = "returned", !.result = "True"]
              ELSE IF max_retries < 1 THEN Returned(call, "False", 0)
              ELSE [call EXCEPT !.pc = "attempt"]
    /\ UNCHANGED otherVars

(* Lines 96-118: one removal attempt and the handling of its error. *)
RmtreeAttempt(outcome) ==
    /\ rmtree.pc = "attempt"
    /\ outcome \in RmtreeOutcomes(rmtree.exists)
    /\ rmtree' =
          CASE outcome = "removed" ->
                  [rmtree EXCEPT !.pc = "returned", !.result = "True",
                                 !.exists = FALSE]
            [] outcome = "Exception" ->
                  Returned(rmtree, "False", rmtree.failed + 1)
            [] OTHER ->
                  IF IsLastAttempt(rmtree.attempt, rmtree.max_retries)
                  THEN Returned(rmtree, "False", rmtree.failed + 1)
                  ELSE IF ~rmtree.exists
                  THEN Returned(rmtree, "True", rmtree.failed + 1)
                  ELSE [rmtree EXCEPT !.pc = "sleep",
                                      !.failed = @ + 1,
                                      !.slept = @ + Backoff(rmtree.delay,
                                                          rmtree.attempt)]
    /\ UNCHANGED otherVars

(* Lines 114 and 95: the sleep ends and the next attempt starts; the loop
   ends on line 120 when there is none. *)
RmtreeWake ==
    /\ rmtree.pc = "sleep"
    /\ rmtree' =
          IF rmtree.attempt + 1 < rmtree.max_retries
          THEN [rmtree EXCEPT !.pc = "attempt", !.attempt = @ + 1]
          ELSE Returned(rmtree, "False", rmtree.failed)
    /\ UNCHANGED otherVars

(* Another process removes the path while the call is under way. *)
OtherProcessRemoves ==
    /\ rmtree.pc \in {"attempt", "sleep"}
    /\ rmtree.exists
    /\ rmtree' = [rmtree EXCEPT !.exists = FALSE]
    /\ UNCHANGED otherVars

(* The caller goes on; the next call starts from scratch. *)
RmtreeDone ==
    /\ rmtree.pc = "returned"
    /\ rmtree' = NoCall
    /\ UNCHANGED otherVars

(***************************************************************************)
(* SpecRmtree: calls of robust_rmtree with every retry budget up to        *)
(* MaxRetries.                                                             *)
(***************************************************************************)
NextRmtree ==
    \/ \E max_retries \in 0..MaxRetries, delay \in 1..MaxDelay,
          exists \in BOOLEAN :
          RobustRmtree(max_retries, delay, exists)
    \/ \E outcome \in {"removed", "OSError", "Exception"} : RmtreeAttempt(outcome)
    \/ RmtreeWake
    \/ OtherProcessRemoves
    \/ RmtreeDone

SpecRmtree == Init /\ [][NextRmtree]_vars

(* The steps of robust_rmtree itself: shutil.rmtree returns or raises, and
   time.sleep ends. *)
RmtreeProgram ==
    \/ \E outcome \in {"removed", "OSError", "Exception"} : RmtreeAttempt(outcome)
    \/ RmtreeWake

(* LiveRmtree: a removal attempt and a sleep both end. *)
LiveRmtree == SpecRmtree /\ WF_vars(RmtreeProgram)

(***************************************************************************)
(* create_build_dir of ci/ci/create_build_dir_v2.py: one call for a        *)
(* target.  The record create holds whether <builddir>/lib,                *)
(* <builddir>/platformio.ini and <builddir>/boards exist, the paths whose  *)
(* removal failed, whether "pio project init" was run and the success      *)
(* flag returned.                                                          *)
(***************************************************************************)

(* The variables of the parts above. *)
baseVars ==
    <<targetVars, ERROR_HAPPENED, argVars, FIRST_BUILD_LOCK, mainVars,
      futureVars, taskVars, pool_hist, rmtree>>

(* Line 123: max_retries of safe_file_removal. *)
safe_file_removal_max_retries == 3

(* The call returns with the success flag ok. *)
CreateReturns(call, ok) ==
    [call EXCEPT !.pc = "returned", !.result = IF ok THEN "True" ELSE "False"]

(* Lines 179-218: the call; a web board is skipped, and the build
   directory is made. *)
CreateBuildDir(web, board_dir, needs_install, lib, ini, boards, mkdir_ok) ==
    /\ create.pc = "idle"
    /\ LET call == [NoCreate EXCEPT !.board_dir = board_dir,
                                    !.needs_install = needs_install,
                                    !.lib = lib, !.ini = ini, !.boards = boards]
       IN  create' =
              IF web THEN CreateReturns(NoCreate, TRUE)
              ELSE IF ~mkdir_ok THEN CreateReturns(call, FALSE)
              ELSE [call EXCEPT !.pc = "lib"]
    /\ UNCHANGED <<baseVars, stage, scenario, sync, defs>>

(* Lines 221-225: robust_rmtree of the lib directory returns removed; a
   failure is a warning. *)
CleanLib(removed) ==
    /\ create.pc = "lib"
    /\ create' =
          IF ~create.lib THEN [create EXCEPT !.pc = "ini"]
          ELSE IF removed THEN [create EXCEPT !.pc = "ini", !.lib = FALSE]
          ELSE [create EXCEPT !.pc = "ini", !.unremoved = @ \cup {"lib"}]
    /\ UNCHANGED <<baseVars, stage, scenario, sync, defs>>

(* Lines 228-230 and 134-138: platformio.ini exists and safe_file_removal
   enters its loop. *)
RemoveIni ==
    /\ create.pc = "ini"
    /\ create' =
          IF create.ini /\ safe_file_removal_max_retries > 0
          THEN [create EXCEPT !.pc = "unlink", !.attempt = 0]
          ELSE IF create.ini
          THEN [create EXCEPT !.pc = "boards", !.unremoved = @ \cup {"ini"}]
          ELSE [create EXCEPT !.pc = "boards"]
    /\ UNCHANGED <<baseVars, stage, scenario, sync, defs>>

(* Lines 231-232: safe_file_removal returned False: a warning, and the
   call goes on. *)
IniFailure(call) == [call EXCEPT !.pc = "boards"]

(* What file_path.unlink() can do: it removes the file, raises OSError
   with the file still there, raises FileNotFoundError (an OSError) because
   another process removed the file, or raises another exception. *)
UnlinkOutcomes == {"removed", "OSError", "FileNotFoundError", "Exception"}

(* Lines 139-158: one unlink of platformio.ini and the handling of its
   error. *)
Unlink(outcome) ==
    /\ create.pc = "unlink"
    /\ outcome \in UnlinkOutcomes
    /\ LET last == create.attempt = safe_file_removal_max_retries - 1
           gone == [create EXCEPT !.ini = FALSE]
       IN  create' =
              CASE outcome = "removed" -> [gone EXCEPT !.pc = "boards"]
                [] outcome = "Exception" ->
                      IniFailure([create EXCEPT !.unremoved = @ \cup {"ini"}])
                [] outcome = "FileNotFoundError" ->
                      IF last
                      THEN IniFailure([gone EXCEPT !.unremoved = @ \cup {"ini"}])
                      ELSE [gone EXCEPT !.pc = "boards"]
                [] OTHER ->
                      IF last
                      THEN IniFailure([create EXCEPT !.unremoved = @ \cup {"ini"}])
                      ELSE [create EXCEPT !.attempt = @ + 1]
    /\ UNCHANGED <<baseVars, stage, scenario, sync, defs>>

(* Lines 235-251: with board_dir the boards directory is removed by
   robust_rmtree and copied anew; a failure of either ends the call. *)
CopyBoards(removed, copied) ==
    /\ create.pc = "boards"
    /\ create' =
          IF ~create.board_dir THEN [create EXCEPT !.pc = "platform"]
          ELSE IF create.boards /\ ~removed
          THEN CreateReturns([create EXCEPT !.unremoved = @ \cup {"boards"}],
                             FALSE)
          ELSE IF ~copied
          THEN CreateReturns([create EXCEPT !.boards = FALSE], FALSE)
          ELSE [create EXCEPT !.pc = "platform", !.boards = TRUE]
    /\ UNCHANGED <<baseVars, stage, scenario, sync, defs>>

(* Lines 254-260: the platform is installed when the board asks for it. *)
InstallPlatform(installed) ==
    /\ create.pc = "platform"
    /\ create' =
          IF create.needs_install /\ ~installed
          THEN CreateReturns(create, FALSE)
          ELSE [create EXCEPT !.pc = "init"]
    /\ UNCHANGED <<baseVars, stage, scenario, sync, defs>>

(* Lines 262-357: "pio project init" runs and exits with returncode; it
   writes platformio.ini when there is none. *)
ProjectInit(returncode) ==
    /\ create.pc = "init"
    /\ create' = CreateReturns([create EXCEPT !.init_ran = TRUE,
                                              !.ini = @ \/ returncode = 0],
                               returncode = 0)
    /\ UNCHANGED <<baseVars, stage, scenario, sync, defs>>

(* The caller goes on; the next call starts from scratch. *)
CreateDone ==
    /\ create.pc = "returned"
    /\ create' = NoCreate
    /\ UNCHANGED <<baseVars, stage, scenario, sync, defs>>

(***************************************************************************)
(* SpecCreate: calls of create_build_dir on every state of the build      *)
(* directory.                                                              *)
(***************************************************************************)
NextCreate ==
    \/ \E web, board_dir, needs_install, lib, ini, boards, mkdir_ok \in BOOLEAN :
          CreateBuildDir(web, board_dir, needs_install, lib, ini, boards, mkdir_ok)
    \/ \E removed \in BOOLEAN : CleanLib(removed)
    \/ RemoveIni
    \/ \E outcome \in UnlinkOutcomes : Unlink(outcome)
    \/ \E removed, copied \in BOOLEAN : CopyBoards(removed, copied)
    \/ \E installed \in BOOLEAN : InstallPlatform(installed)
    \/ \E returncode \in {0, 1} : ProjectInit(returncode)
    \/ CreateDone

SpecCreate == Init /\ [][NextCreate]_vars

(***************************************************************************)
(* ci-compile.py run with --optimize-build: main and, for each board,      *)
(* compile_with_pio_ci_optimized with its two stages.  The record stage    *)
(* holds the arguments, the position, the commands handed to              *)
(* _execute_pio_command with their exits, the errors list of the board     *)
(* under way, the result returned for each board and the exit code.        *)
(***************************************************************************)

(* args.boards: a board with a real toolchain, the web board, and a name
   that get_board does not know. *)
StageBoards == {"uno", "web", "nosuch"}
StageBoardLists == UNION {[1..n -> StageBoards] : n \in 1..MaxProjects}

(* The requested examples by what is on disk: a directory with an .ino
   file, a directory without one, no directory.  The list is empty when
   --exclude-examples removes every example. *)
ExampleKinds == {"ino", "no_ino", "missing"}
StageExampleLists == UNION {[1..n -> ExampleKinds] : n \in 0..MaxUnits}

Stage2OptionsPlain == {"--keep-build-dir"}

(* Lines 487-500 and 578-592: the options that tell stage 1 from stage 2. *)
Stage1Options == {"--keep-build-dir", "--disable-auto-clean"}
Stage2Options == {"--keep-build-dir", "lib_ldf_mode=chain"}

(* A command handed to _execute_pio_command for unit i of board b. *)
Command(b, i, name, options) ==
    [board |-> b, unit |-> i, stage |-> name, options |-> options,
     exit |-> "running"]

(* How a command can end: the exit code of the subprocess, or an exception
   raised by Popen or by the reading of its output. *)
Exits == {"0", "1", "exception"}

(* Lines 744-766: _execute_pio_command returns True for exit code 0. *)
_execute_pio_command(exit) == exit = "0"

(* Lines 960-975: main is called with the boards and examples of the
   command line. *)
Main(boards, example_paths) ==
    /\ stage.pc = "idle"
    /\ stage' = [NoStage EXCEPT !.pc = "get_board", !.boards = boards,
                                !.example_paths = example_paths]
    /\ UNCHANGED <<baseVars, create, scenario, sync, defs>>

(* Lines 976-984: get_board for every name; an unknown board ends the run
   with 1. *)
GetBoards ==
    /\ stage.pc = "get_board"
    /\ stage' =
          IF \E k \in DOMAIN stage.boards : stage.boards[k] = "nosuch"
          THEN [stage EXCEPT !.pc = "done", !.rtn = "1"]
          ELSE [stage EXCEPT !.pc = "resolve"]
    /\ UNCHANGED <<baseVars, create, scenario, sync, defs>>

(* Lines 1005-1013 and 273-277: resolve_example_path raises when the
   directory of an example does not exist, and the run ends with 1. *)
ResolveExamples ==
    /\ stage.pc = "resolve"
    /\ stage' =
          IF \E k \in DOMAIN stage.example_paths :
                stage.example_paths[k] = "missing"
          THEN [stage EXCEPT !.pc = "done", !.rtn = "1"]
          ELSE [stage EXCEPT !.pc = "board", !.b = 1]
    /\ UNCHANGED <<baseVars, create, scenario, sync, defs>>

(* Lines 1061-1072: compile_function has returned ok for board b; a failure
   is noted and the loop goes on with the next board. *)
BoardReturns(st, ok) ==
    [st EXCEPT !.pc = "board",
               !.b = @ + 1,
               !.i = 0,
               !.errors = <<>>,
               !.results = Append(@, [ok |-> ok, errors |-> st.errors]),
               !.compilation_errors = IF ok THEN @ ELSE Append(@, st.b)]

(* Lines 1056-1059 and 436-469: the next board; the web board is skipped,
   for another the build directory and build_info.json are made.  Lines
   1074-1091: after the last board the exit code. *)
BoardHead ==
    /\ stage.pc = "board"
    /\ stage' =
          IF stage.b > Len(stage.boards)
          THEN [stage EXCEPT !.pc = "done",
                             !.rtn = IF stage.compilation_errors # <<>>
                                     THEN "1" ELSE "0"]
          ELSE IF stage.boards[stage.b] = "web"
          THEN BoardReturns(stage, TRUE)
          ELSE [stage EXCEPT !.pc = "stage1", !.errors = <<>>]
    /\ UNCHANGED <<baseVars, create, scenario, sync, defs>>

(* Lines 471-548: stage 1 looks for the .ino file of the first example and
   starts its command; without examples there is no stage 1. *)
Stage1 ==
    /\ stage.pc = "stage1"
    /\ stage' =
          IF stage.example_paths = <<>>
          THEN [stage EXCEPT !.pc = "stage2", !.i = 2]
          ELSE IF stage.example_paths[1] # "ino"
          THEN BoardReturns([stage EXCEPT !.errors = <<1>>], FALSE)
          ELSE [stage EXCEPT
                  !.pc = "seed",
                  !.commands = Append(@, Command(stage.b, 1, "seed",
                                                 Stage1Options))]
    /\ UNCHANGED <<baseVars, create, scenario, sync, defs>>

(* The command under way, the last one started. *)
Exited(st, exit) ==
    [st EXCEPT !.commands[Len(st.commands)].exit = exit]

SeedFailureBatches(st) == [st EXCEPT !.pc = "stage2", !.i = 2]

(* Lines 553-554: stage 1 failed. *)
SeedFailure(st) == BoardReturns([st EXCEPT !.errors = <<1>>], FALSE)

(* Lines 669-766 and 550-556: the stage 1 command ends. *)
SeedExit(exit) ==
    /\ stage.pc = "seed"
    /\ stage' =
          IF _execute_pio_command(exit)
          THEN [Exited(stage, exit) EXCEPT !.pc = "stage2", !.i = 2]
          ELSE SeedFailure(Exited(stage, exit))
    /\ UNCHANGED <<baseVars, create, scenario, sync, defs>>

(* Lines 558-625 and 638-648: stage 2 takes the next remaining example,
   notes an error when it has no .ino file and starts its command
   otherwise; after the last one the board's result. *)
Stage2 ==
    /\ stage.pc = "stage2"
    /\ stage' =
          IF stage.i > Len(stage.example_paths)
          THEN BoardReturns(stage, stage.errors = <<>>)
          ELSE IF stage.example_paths[stage.i] # "ino"
          THEN [stage EXCEPT !.errors = Append(@, stage.i), !.i = @ + 1]
          ELSE [stage EXCEPT
                  !.pc = "batch",
                  !.commands = Append(@, Command(stage.b, stage.i, "batch",
                                                 Stage2Options))]
    /\ UNCHANGED <<baseVars, create, scenario, sync, defs>>

BatchFailureEndsStage(st) ==
    [st EXCEPT !.pc = "stage2", !.errors = Append(@, st.i),
               !.i = Len(st.example_paths) + 1]

(* Lines 632-633: a stage 2 command failed: an error is noted and the loop
   goes on. *)
BatchFailure(st) ==
    [st EXCEPT !.pc = "stage2", !.errors = Append(@, st.i), !.i = @ + 1]

(* Lines 669-766 and 627-633: a stage 2 command ends. *)
BatchExit(exit) ==
    /\ stage.pc = "batch"
    /\ stage' =
          IF _execute_pio_command(exit)
          THEN [Exited(stage, exit) EXCEPT !.pc = "stage2", !.i = @ + 1]
          ELSE BatchFailure(Exited(stage, exit))
    /\ UNCHANGED <<baseVars, create, scenario, sync, defs>>

(* The steps of ci-compile.py itself and the end of its subprocess. *)
StageProgram == GetBoards \/ ResolveExamples \/ BoardHead \/ Stage1 \/ Stage2
SubprocessEnds == \E exit \in Exits : SeedExit(exit) \/ BatchExit(exit)

(***************************************************************************)
(* SpecTwoStage: one run of ci-compile.py --optimize-build.               *)
(* LiveTwoStage: the same with the program always taking its next step;    *)
(* nothing makes the subprocess end: _execute_pio_command reads its output *)
(* and waits for it without a timeout (lines 683-742).                     *)
(***************************************************************************)
NextTwoStage ==
    \/ /\ stage.pc = "idle"
       /\ \E boards \in StageBoardLists, example_paths \in StageExampleLists :
             Main(boards, example_paths)
    \/ GetBoards
    \/ ResolveExamples
    \/ BoardHead
    \/ Stage1
    \/ \E exit \in Exits : SeedExit(exit)
    \/ Stage2
    \/ \E exit \in Exits : BatchExit(exit)

SpecTwoStage == Init /\ [][NextTwoStage]_vars

LiveTwoStage == SpecTwoStage /\ WF_vars(StageProgram)

(***************************************************************************)
(* Runs of concurrent_run_v2, each in a new process, over two targets and  *)
(* a list of units, with edits of the units between the runs.  The record  *)
(* scenario holds the unit trees, the build_cache.json of each target, the *)
(* position of each target's compile_examples task, the rebuild decisions  *)
(* of the run under way and the events so far.  create_build_dir does not  *)
(* touch build_cache.json and is left out here.                            *)
(***************************************************************************)

(* args.examples: two units with different names, or two with the same
   last path component. *)
ScenarioLists == {<<Blink, Fade>>, <<Blink, FxBlink>>}

(* Lines 88 and 144: the key of a unit in the cache of a board. *)
build_cache_key(board, u) == <<board, "_", u.name>>

(* The events of a scenario: a run, with or without --clean-cache, and an
   edit of a unit. *)
RunEvent(clean) ==
    [e |-> "run", clean |-> clean, unit |-> NoUnit, path |-> <<>>]
EditEvent(kind, u, p) ==
    [e |-> kind, clean |-> FALSE, unit |-> u, path |-> p]
RunsIn(events) ==
    Cardinality({n \in DOMAIN events : events[n].e = "run"})
EditsIn(events) ==
    Cardinality({n \in DOMAIN events : events[n].e # "run"})

(* Lines 56-93 of concurrent_run_v2: a run starts in a new process, on the
   same list of units as the run before.  A scenario ends with its first
   failed run. *)
ScenarioRun(exs, clean) ==
    /\ scenario.pc = "idle"
    /\ ~scenario.failed
    /\ RunsIn(scenario.events) < MaxScenarioRuns
    /\ scenario.examples \in {<<>>, exs}
    /\ scenario' =
          [scenario EXCEPT
              !.pc = IF clean THEN "clean" ELSE "build",
              !.examples = exs,
              !.clean_cache = clean,
              !.ERROR_HAPPENED = FALSE,
              !.task = [t \in ScenarioTargets |-> [pc |-> "loop", idx |-> 1]],
              !.decisions = [t \in ScenarioTargets |-> <<>>],
              !.events = Append(@, RunEvent(clean))]
    /\ UNCHANGED <<baseVars, create, stage, sync, defs>>

(* clean_build_cache(build_dir), lines 503-508: the build_cache.json of
   every board directory that has one is deleted. *)
clean_build_cache(cache) == [t \in DOMAIN cache |-> AbsentFile]

(* Lines 89-93 of concurrent_run_v2: with clean_cache the caches are
   cleaned before the build directories are initialized. *)
CleanBuildCache ==
    /\ scenario.pc = "clean"
    /\ scenario' = [scenario EXCEPT !.pc = "build",
                                    !.cache = clean_build_cache(@)]
    /\ UNCHANGED <<baseVars, create, stage, sync, defs>>

(* Lines 435-438 and 232-238: the task of target t takes its next unit,
   unless the failure flag is set, and decides on the rebuild. *)
ScenarioDecide(t) ==
    /\ scenario.pc = "build"
    /\ scenario.task[t].pc = "loop"
    /\ LET k == scenario.task[t].idx
       IN  scenario' =
              IF scenario.ERROR_HAPPENED \/ k > Len(scenario.examples)
              THEN [scenario EXCEPT !.task[t].pc = "done"]
              ELSE [scenario EXCEPT
                      !.task[t].pc = "build",
                      !.decisions[t] =
                          Append(@, needs_rebuild(
                                        scenario.tree[scenario.examples[k]],
                                        scenario.cache[t], libMtime,
                                        build_cache_key(t, scenario.examples[k])))]
    /\ UNCHANGED <<baseVars, create, stage, sync, defs>>

CacheAfterBuildKept(cf, key, current_files, returncode) == cf

(* Lines 300-303 and 139-148: after a build that exits with 0 the
   fingerprint of the unit is stored under its key. *)
CacheAfterBuild(cf, key, current_files, returncode) ==
    IF returncode = 0
    THEN [kind |-> "json",
          doc |-> UpdatedDocument(cf, key, current_files),
          mtime |-> now]
    ELSE cf

(* Lines 291-305 and 478-487: the toolchain of target t exits; a failure
   sets the flag and ends the task. *)
ScenarioBuild(t, returncode) ==
    /\ scenario.pc = "build"
    /\ scenario.task[t].pc = "build"
    /\ LET u == scenario.examples[scenario.task[t].idx]
           current_files == get_example_files_with_hashes(scenario.tree[u])
       IN  scenario' =
              [scenario EXCEPT
                  !.cache[t] = CacheAfterBuild(@, build_cache_key(t, u),
                                               current_files, returncode),
                  !.task[t] = IF returncode = 0
                              THEN [pc |-> "loop", idx |-> @.idx + 1]
                              ELSE [pc |-> "done", idx |-> @.idx],
                  !.ERROR_HAPPENED = @ \/ returncode # 0,
                  !.failed = @ \/ returncode # 0]
    /\ UNCHANGED <<baseVars, create, stage, sync, defs>>

(* Lines 200-266 of concurrent_run_v2: every task has returned and the run
   is over. *)
ScenarioEnd ==
    /\ scenario.pc = "build"
    /\ \A t \in ScenarioTargets : scenario.task[t].pc = "done"
    /\ scenario' = [scenario EXCEPT
                      !.pc = "idle",
                      !.task = [t \in ScenarioTargets |-> NoTask]]
    /\ UNCHANGED <<baseVars, create, stage, sync, defs>>

(* Between two runs a file of a unit of the list is modified: it gets
   another content. *)
ScenarioEdit(u, p, c) ==
    /\ scenario.pc = "idle"
    /\ scenario.events # <<>>
    /\ ~scenario.failed
    /\ EditsIn(scenario.events) < MaxEdits
    /\ \E k \in DOMAIN scenario.examples : scenario.examples[k] = u
    /\ scenario.tree[u][p] \notin {c, NoContent}
    /\ scenario' = [scenario EXCEPT
                      !.tree[u][p] = c,
                      !.events = Append(@, EditEvent("modify", u, p))]
    /\ UNCHANGED <<baseVars, create, stage, sync, defs>>

(***************************************************************************)
(* SpecScenario: up to MaxScenarioRuns runs over two targets, with up to   *)
(* MaxEdits modifications between them.                                    *)
(***************************************************************************)
NextScenario ==
    \/ \E exs \in ScenarioLists, clean \in BOOLEAN : ScenarioRun(exs, clean)
    \/ CleanBuildCache
    \/ \E t \in ScenarioTargets : ScenarioDecide(t)
    \/ \E t \in ScenarioTargets, returncode \in {0, 1} :
          ScenarioBuild(t, returncode)
    \/ ScenarioEnd
    \/ \E u \in ScenarioUnits, p \in Paths, c \in Contents :
          ScenarioEdit(u, p, c)

SpecScenario == Init /\ [][NextScenario]_vars

(***************************************************************************)
(* SpecSync: sync_example_files with a changed set, on a working source    *)
(* area that mirrors the unit as it was when its fingerprint was cached.   *)
(* The unit is then edited, library sources are modified, needs_rebuild    *)
(* computes the changed set and the incremental sync is made with it.      *)
(***************************************************************************)

(* The trees of a unit. *)
Trees == [Paths -> Contents \cup {NoContent}]

(* sync_example_files(example_path, srcdir, clean_existing=True) on a new
   or existing working area: the clean full sync. *)
CleanFullSync(u, tree) == sync_example_files(NoSrcdir, u, tree, TRUE, {}, TRUE)

(* The unit has the tree t0, its fingerprint is the cache entry and the
   working area holds its files. *)
SyncMirror(t0) ==
    /\ sync.pc = "idle"
    /\ sync' = [sync EXCEPT
                  !.pc = "mirrored",
                  !.cached = t0,
                  !.tree = t0,
                  !.cache = [kind |-> "json",
                             doc |-> UpdatedDocument(AbsentFile, cache_key(Blink),
                                        get_example_files_with_hashes(t0)),
                             mtime |-> 0],
                  !.srcdir = CleanFullSync(Blink, t0)]
    /\ UNCHANGED <<baseVars, create, stage, scenario, defs>>

(* A file of the unit is written, created or deleted. *)
SyncEditFile(p, c) ==
    /\ sync.pc = "mirrored"
    /\ c # sync.tree[p]
    /\ sync' = [sync EXCEPT !.tree[p] = c]
    /\ UNCHANGED <<baseVars, create, stage, scenario, defs>>

(* A library source file is modified after the cache file was written. *)
SyncTouchLibrary(f) ==
    /\ sync.pc = "mirrored"
    /\ sync.lib[f] = 0
    /\ sync' = [sync EXCEPT !.lib[f] = 1]
    /\ UNCHANGED <<baseVars, create, stage, scenario, defs>>

(* needs_rebuild computes the changed set (lines 80-134). *)
SyncNeedsRebuild ==
    /\ sync.pc = "mirrored"
    /\ sync' = [sync EXCEPT
                  !.pc = "decided",
                  !.changed_files =
                      needs_rebuild(sync.tree, sync.cache, sync.lib,
                                    cache_key(Blink)).changed]
    /\ UNCHANGED <<baseVars, create, stage, scenario, defs>>

(* sync_example_files(example_path, srcdir, changed_files), lines 181-197. *)
SyncExampleFiles ==
    /\ sync.pc = "decided"
    /\ sync' = [sync EXCEPT
                  !.pc = "synced",
                  !.before = sync.srcdir,
                  !.srcdir = sync_example_files(sync.srcdir, Blink, sync.tree,
                                                FALSE, sync.changed_files, FALSE)]
    /\ UNCHANGED <<baseVars, create, stage, scenario, defs>>

SyncReturn ==
    /\ sync.pc = "synced"
    /\ sync' = NoSync
    /\ UNCHANGED <<baseVars, create, stage, scenario, defs>>

NextSync ==
    \/ (sync.pc = "idle" /\ \E t0 \in Trees : SyncMirror(t0))
    \/ \E p \in Paths, c \in Contents \cup {NoContent} : SyncEditFile(p, c)
    \/ \E f \in LibFiles : SyncTouchLibrary(f)
    \/ SyncNeedsRebuild
    \/ SyncExampleFiles
    \/ SyncReturn

SpecSync == Init /\ [][NextSync]_vars

(***************************************************************************)
(* SpecDefines: the create_build_dir calls of one concurrent_run_v2 run    *)
(* and the list object args.defines that is handed to each of them.  The   *)
(* record defs holds the content of that list and, per call, its position, *)
(* what its local name defines is bound to and the defines of its project  *)
(* init command.  Call 1 is the call for projects[0] of lines 101-111,     *)
(* call k + 1 the pool call for the k-th project.                          *)
(***************************************************************************)

(* Boards and their board.defines; uno has none. *)
DefineBoards == {"uno", "esp32", "teensy"}
BoardDefines(b) ==
    CASE b = "esp32" -> {"ESP32"}
      [] b = "teensy" -> {"TEENSY"}
      [] OTHER -> {}

(* The defines of the run (ci-compile-v2.py, lines 413-421). *)
GlobalDefines == {"FASTLED_ALL_SRC=1"}

DefineProjectLists == UNION {[1..n -> DefineBoards] : n \in 1..MaxProjects}

(* The board of call k. *)
BoardOfCall(k) == IF k = 1 THEN defs.projects[1] ELSE defs.projects[k - 1]

NoInitCall == [pc |-> "pending", bound |-> "argument", local |-> {}, cmd |-> {},
               built |-> FALSE]

(* concurrent_run_v2 is called (lines 66-101). *)
DefinesRun(projects_, parallel_init) ==
    /\ defs.pc = "idle"
    /\ defs' = [pc |-> "first",
                projects |-> projects_,
                workers |-> ParallelWorkers(parallel_init, Len(projects_)),
                defines |-> GlobalDefines,
                call |-> [k \in 1..(Len(projects_) + 1) |-> NoInitCall]]
    /\ UNCHANGED <<baseVars, create, stage, scenario, sync>>

(* The calls that are under way. *)
CallsRunning == {k \in DOMAIN defs.call : defs.call[k].pc \in {"extend", "dedupe", "command"}}

(* Call k may start: the call of line 101 first, then the pool calls in
   the order of submission while a pool thread is free. *)
CallStarts(k) ==
    /\ defs.call[k].pc = "pending"
    /\ IF k = 1 THEN defs.pc = "first"
       ELSE /\ defs.pc = "pool"
            /\ \A j \in 2..(k - 1) : defs.call[j].pc # "pending"
            /\ Cardinality(CallsRunning) < defs.workers

(* Lines 193-199: create_build_dir is entered. *)
CreateEnter(k) ==
    /\ defs.pc \in {"first", "pool"}
    /\ CallStarts(k)
    /\ defs' = [defs EXCEPT !.call[k].pc =
                   IF BoardDefines(BoardOfCall(k)) # {} THEN "extend" ELSE "command"]
    /\ UNCHANGED <<baseVars, create, stage, scenario, sync>>

(* Line 200: defines.extend(board.defines), on the list of the caller. *)
ExtendDefines(k) ==
    /\ defs.pc \in {"first", "pool"}
    /\ defs.call[k].pc = "extend"
    /\ defs' = [defs EXCEPT !.defines = @ \cup BoardDefines(BoardOfCall(k)),
                            !.call[k].pc = "dedupe"]
    /\ UNCHANGED <<baseVars, create, stage, scenario, sync>>

(* Line 201: defines = list(set(defines)), a new list bound to the local
   name. *)
DedupeDefines(k) ==
    /\ defs.pc \in {"first", "pool"}
    /\ defs.call[k].pc = "dedupe"
    /\ defs' = [defs EXCEPT !.call[k].pc = "command",
                            !.call[k].bound = "local",
                            !.call[k].local = defs.defines]
    /\ UNCHANGED <<baseVars, create, stage, scenario, sync>>

(* The list that the name defines stands for in call k. *)
DefinesOf(k) ==
    IF defs.call[k].bound = "local" THEN defs.call[k].local ELSE defs.defines

(* Lines 286-289: the -D flags of the project init command. *)
InitCommand(k) ==
    /\ defs.pc \in {"first", "pool"}
    /\ defs.call[k].pc = "command"
    /\ defs' = [defs EXCEPT !.call[k].pc = "done",
                            !.call[k].built = TRUE,
                            !.call[k].cmd = DefinesOf(k),
                            !.pc = IF k = 1 THEN "pool" ELSE @]
    /\ UNCHANGED <<baseVars, create, stage, scenario, sync>>

(* Every call has returned. *)
DefinesDone ==
    /\ defs.pc = "pool"
    /\ \A k \in DOMAIN defs.call : defs.call[k].pc = "done"
    /\ defs' = NoDefs
    /\ UNCHANGED <<baseVars, create, stage, scenario, sync>>

NextDefines ==
    \/ (defs.pc = "idle" /\ \E projects_ \in DefineProjectLists, parallel_init \in BOOLEAN :
                               DefinesRun(projects_, parallel_init))
    \/ \E k \in DOMAIN defs.call : CreateEnter(k)
    \/ \E k \in DOMAIN defs.call : ExtendDefines(k)
    \/ \E k \in DOMAIN defs.call : DedupeDefines(k)
    \/ \E k \in DOMAIN defs.call : InitCommand(k)
    \/ DefinesDone

SpecDefines == Init /\ [][NextDefines]_vars

(***************************************************************************)
(* Properties.                                                             *)
(***************************************************************************)

(* The rebuild decision for unit u in the current state. *)
Decision(u) == needs_rebuild(unitTree[u], cacheFile, libMtime, cache_key(u))

(* The paths of the current fingerprint of u. *)
CurrentPaths(u) == DOMAIN get_example_files_with_hashes(unitTree[u])

(* The cache holds an entry under the key of u. *)
HasEntry(u) == PyIn(cache_key(u), load_build_cache(cacheFile))

(* The document of the cache file is being written. *)
Saving == pc = "dump"

(* C1: a failed build attempt leaves the cache file as it was when the
   attempt started; the cache update is reached only with success set; and
   every entry of the cache file is stored under the key of a unit whose
   toolchain run has exited with code 0. *)
C1_FailedBuildKeepsCache ==
    /\ (pc = "ret" /\ ~success) => cacheFile = attemptCache
    /\ pc \in {"update", "save", "dump"} => success
    /\ \A k \in DOMAIN load_build_cache(cacheFile).d :
          \E u \in okUnits : cache_key(u) = k

C1_Witness == pc = "ret" /\ ~success /\ cacheFile.kind = "json"

(* C2 (as amended): once update_build_cache(target, unit, fp) has completed
   with fp the unit's current fingerprint, needs_rebuild returns (False, {})
   for the unit for as long as its fingerprint stays fp, no write of the
   cache file is under way or was interrupted, the entry under the unit's
   key is not replaced, and no library .cpp/.hpp file gets a modification
   time newer than the cache file's. *)
C2_RoundTripWhileCacheCurrent ==
    ~Saving => \A u \in fresh : Decision(u) = Result(FALSE, {})

C2_Witness ==
    /\ pc = "sync"
    /\ runs = 2
    /\ example \in fresh
    /\ ~needs_rebuild_flag
    /\ changed_files = {}

(* C2 (as stated): after update_build_cache(target, unit, fp), every later
   needs_rebuild for the unit on the unchanged unit tree returns (False, {}). *)
C2_RoundTripOnUnchangedTree ==
    ~Saving => \A u \in freshTree : Decision(u) = Result(FALSE, {})

(* C3: when the cache holds no entry under the key of (target, unit),
   needs_rebuild returns True and the changed set is the full set of paths
   of the current fingerprint; the worker's locals hold that result. *)
C3_ColdStart ==
    /\ \A u \in Units :
          ~HasEntry(u) => Decision(u) = Result(TRUE, CurrentPaths(u))
    /\ (pc = "sync" /\ ~force_rebuild /\ ~HasEntry(example)) =>
          (needs_rebuild_flag /\ changed_files = CurrentPaths(example))

C3_Witness ==
    /\ pc = "sync"
    /\ ~force_rebuild
    /\ ~HasEntry(example)
    /\ needs_rebuild_flag
    /\ changed_files = {MainIno, UtilH}

(* The paths present in only one of the two fingerprints, or in both with
   different digests. *)
SymmetricDifference(cached, current) ==
    {p \in DOMAIN cached \cup DOMAIN current :
        \/ p \notin DOMAIN cached
        \/ p \notin DOMAIN current
        \/ cached[p] # current[p]}

(* C4: when an entry exists and no library file is newer than the cache
   file, needs_rebuild returns as changed exactly the symmetric difference
   of the cached and the current fingerprint, and needsRebuild is true
   exactly when that set is not empty. *)
C4_ChangedIsSymmetricDifference ==
    \A u \in Units :
        (HasEntry(u) /\ \A f \in LibFiles : libMtime[f] <= cacheFile.mtime) =>
            LET diff == SymmetricDifference(
                            load_build_cache(cacheFile).d[cache_key(u)].d,
                            get_example_files_with_hashes(unitTree[u]))
            IN  Decision(u) = Result(diff # {}, diff)

(* One file of the unit was deleted since its entry was stored: the worker
   has decided, and the changed set is that path alone. *)
C4_Witness ==
    /\ pc = "sync"
    /\ HasEntry(example)
    /\ needs_rebuild_flag
    /\ \E p \in Paths :
          /\ changed_files = {p}
          /\ unitTree[example][p] = NoContent

(* C5: for a unit with a cache entry, if any file of the library's source
   tree is newer than the cache file, needs_rebuild returns True with the
   full current path set. *)
C5_LibraryStaleness ==
    \A u \in Units :
        (HasEntry(u) /\ \E f \in LibFiles : libMtime[f] > cacheFile.mtime) =>
            Decision(u) = Result(TRUE, CurrentPaths(u))

(* C6: the step that calls needs_rebuild leaves the cache file (content,
   existence, modification time) as it was. *)
C6_NeedsRebuildKeepsStore ==
    [][(pc = "decide" /\ pc' # "decide" /\ ~force_rebuild) =>
          cacheFile' = cacheFile]_vars

C6_Witness ==
    /\ pc = "sync"
    /\ ~force_rebuild
    /\ needs_rebuild_flag
    /\ cacheFile.kind = "absent"

(* C7: at every point of update_build_cache / save_build_cache the cache
   file holds the complete previous document or the complete new one, and
   the file is never left empty or partially written. *)
C7_AtomicUpdate ==
    /\ cacheFile.kind # "empty"
    /\ pc \in {"save", "dump"} =>
          \/ cacheFile = attemptCache
          \/ (cacheFile.kind = "json" /\ cacheFile.doc = cache_data)

(* C8: whatever the cache file holds, neither needs_rebuild nor the
   update_build_cache that follows raises, and needs_rebuild asks for a
   rebuild. *)
C8_MalformedCacheNotFatal ==
    /\ pc # "raised"
    /\ (pc = "sync" /\ runs = 1 /\ idx = 1) => needs_rebuild_flag

(* The working source area that holds the non-excluded files of u and
   nothing else. *)
AreaOf(u) ==
    [exists |-> TRUE,
     files |-> [p \in Paths |->
                  IF unitTree[u][p] # NoContent /\ ~_fastled_js_is_parent_directory(p)
                  THEN CopyOf(u, unitTree[u][p])
                  ELSE NoFile]]

(* C9: the sync made for a non-first unit without force_rebuild
   (clean_existing = True) leaves in the working source area exactly the
   non-excluded files of the new unit. *)
C9_CleanSwitch ==
    [][(pc = "sync" /\ pc' = "build" /\ clean_src_only) =>
          srcdir' = AreaOf(example)]_vars

(* The second unit of the list is about to be built; the first one had a
   file that the second one does not have. *)
C9_Witness ==
    /\ pc = "build"
    /\ clean_src_only
    /\ idx = 2
    /\ unitTree[examples[1]][UtilH] # NoContent
    /\ unitTree[example][UtilH] = NoContent
    /\ srcdir.files[UtilH] = NoFile

(* C10: whenever the toolchain is about to be invoked for unit U, every
   file of the working source area was copied from U. *)
C10_AreaHoldsUnitAtBuild ==
    pc = "build" =>
        /\ srcdir.exists
        /\ \A p \in Paths :
              srcdir.files[p] # NoFile => srcdir.files[p].unit = example

(***************************************************************************)
(* Properties of concurrent_run_v2.                                        *)
(***************************************************************************)

(* The toolchain of task i is running, in the build or in its verbose
   repetition. *)
ToolchainRuns(i) == task_pc[i] \in {"build", "verbose"}

(* Task i is inside compile_for_board_and_example. *)
InUnitBuild(i) ==
    task_pc[i] \in {"compile", "build", "set_flag", "verbose", "update", "ret"}

(* C11: fail-fast dispatch.  Once ERROR_HAPPENED is set no task starts the
   toolchain for a unit: every step that starts a toolchain is taken with
   the flag not set, whether or not the task waited for FIRST_BUILD_LOCK
   after its flag check. *)
C11_NoDispatchAfterFlag ==
    [][\A i \in DOMAIN task_pc :
          (task_pc[i] = "compile" /\ task_pc'[i] = "build") => ~ERROR_HAPPENED]_vars

(* The build of target i is printed as a success. *)
ReportedSuccess(i) == reported[i] = "success"

(* Target i has built every unit of its list. *)
BuiltAll(i) == pool_hist.built[i] = Len(examples)

(* C12: fail-fast reporting.  A target that is reported as compiled
   successfully has built all its units, and after the run a target whose
   build failed is reported failed. *)
C12_ReportsTrueOutcome ==
    \A i \in Tasks :
        /\ ReportedSuccess(i) => BuiltAll(i)
        /\ (main_pc = "done" /\ build_future[i] = "failed") => reported[i] = "failed"

(* C13: with verbose_on_failure, _run_verbose_build runs at most once in
   the process, however the failing builds of the targets interleave. *)
C13_VerboseRunOnce == pool_hist.verbose_runs <= 1

(* C14: if the initialization of a target has failed or raised, no
   compile_examples future is ever submitted and concurrent_run_v2 returns
   a non-zero status. *)
C14_InitFailureAbortsRun ==
    pool_hist.init_failed =>
        /\ \A i \in Tasks : build_future[i] = "none"
        /\ main_pc = "done" => rtn = "1"

(* C15: an initialization that was pending when the first initialization
   failed is cancelled before it runs: it is never started. *)
C15_PendingInitNeverStarts ==
    \A i \in pool_hist.pending_at_failure :
        init_future[i] \in {"pending", "cancelled"}

(* C16: the first-build gate.  With USE_FIRST_BUILD_LOCK at most one task
   is inside the build of its first unit, and the task that is there holds
   the lock; only a task at its first unit waits for the lock or holds it,
   so the build of a later unit never blocks on it. *)
C16_FirstBuildGate ==
    /\ USE_FIRST_BUILD_LOCK =>
          \A i, j \in Tasks :
              (InUnitBuild(i) /\ task_is_first[i] /\
               InUnitBuild(j) /\ task_is_first[j]) => i = j
    /\ USE_FIRST_BUILD_LOCK =>
          \A i \in Tasks :
              (InUnitBuild(i) /\ task_is_first[i]) => FIRST_BUILD_LOCK = i
    /\ \A i \in Tasks :
          (task_pc[i] = "lock" \/ FIRST_BUILD_LOCK = i) => task_is_first[i]

(* Two targets are at their first unit: one runs its toolchain holding the
   lock, the other waits for the lock. *)
C16_Witness ==
    /\ USE_FIRST_BUILD_LOCK
    /\ \E i, j \in Tasks :
          /\ task_pc[i] = "build" /\ task_is_first[i] /\ FIRST_BUILD_LOCK = i
          /\ task_pc[j] = "lock"

(* With the gate on, the toolchains of two targets run at the same time,
   each for a unit after the first. *)
C16_LaterBuildsOverlap ==
    /\ USE_FIRST_BUILD_LOCK
    /\ \E i, j \in Tasks :
          /\ i # j
          /\ task_pc[i] = "build" /\ ~task_is_first[i]
          /\ task_pc[j] = "build" /\ ~task_is_first[j]

(* The build directory of a task: <build_dir>/<board_name> (lines 222-226). *)
builddir(i) == projects[i]

(* C17: at any time at most one toolchain build is in flight for the build
   directory of a target. *)
C17_OneBuildPerDirectory ==
    \A i, j \in Tasks :
        (ToolchainRuns(i) /\ ToolchainRuns(j) /\ builddir(i) = builddir(j))
            => i = j

(* C18: no two workers are inside update_build_cache (load, modify, save)
   for the build_cache.json of the same build directory. *)
C18_OneCacheWriterPerTarget ==
    \A i, j \in Tasks :
        (task_pc[i] = "update" /\ task_pc[j] = "update" /\
         builddir(i) = builddir(j)) => i = j

(***************************************************************************)
(* Properties of robust_rmtree.                                            *)
(***************************************************************************)

(* C19: when the path no longer exists after a removal attempt has failed,
   on any attempt, the call returns True. *)
C19_GoneIsSuccess ==
    (rmtree.pc = "returned" /\ rmtree.failed > 0 /\ rmtree.gone)
        => rmtree.result = "True"

(* C20: the call returns False only after max_retries removal attempts
   have been made and have all failed. *)
C20_FalseOnlyAfterBudget ==
    (rmtree.pc = "returned" /\ rmtree.result = "False")
        => rmtree.failed = rmtree.max_retries

(* C28: with force_rebuild the rebuild decision is disabled: the decision
   step does not consult needs_rebuild (it cannot raise and it reports a
   rebuild whatever the cache holds), and the sync before the toolchain
   cleans the working source area and copies the whole unit, leaving
   exactly the unit's non-excluded files; without force_rebuild every
   non-first unit is synced with clean_existing = True, to the same
   effect. *)
C28_ForceRebuild ==
    [][/\ (pc = "decide" /\ force_rebuild /\ pc' \in {"sync", "raised"}) =>
              /\ pc' = "sync"
              /\ needs_rebuild_flag'
              /\ cacheFile' = cacheFile
       /\ (pc = "sync" /\ pc' = "build" /\ force_rebuild) =>
              /\ needs_rebuild_flag
              /\ srcdir' = AreaOf(example)
       /\ (pc = "sync" /\ pc' = "build" /\ ~force_rebuild /\ idx > 1) =>
              /\ clean_src_only
              /\ srcdir' = AreaOf(example)]_vars

(* A forced run is about to build its second unit: the cache holds the
   unit's current fingerprint, so needs_rebuild would report no rebuild,
   and a file that only the first unit has is gone from the working source
   area. *)
C28_Witness ==
    /\ pc = "build"
    /\ force_rebuild
    /\ idx = 2
    /\ needs_rebuild_flag
    /\ Decision(example) = Result(FALSE, {})
    /\ unitTree[examples[1]][UtilH] # NoContent
    /\ unitTree[example][UtilH] = NoContent
    /\ srcdir = AreaOf(example)

(***************************************************************************)
(* Properties of the build pool of concurrent_run_v2.                      *)
(***************************************************************************)

(* The build pool exists: between its creation and the end of its with
   block. *)
BuildPoolOpen == main_pc \in {"build_wait", "build_cancel", "build_shutdown"}

(* C30: the pool bound.  While the build pool exists there is exactly one
   build task per target, a target being an entry of args.projects; the
   pool has max(1, min(cpu_count // 2, number of targets)) threads, which
   is at least one and at most the number of targets; and the build tasks
   running are at most as many as the threads. *)
C30_PoolBound ==
    BuildPoolOpen =>
        /\ DOMAIN build_future = Tasks
        /\ \E half \in 0..MaxCpus :
              max_workers = IF half < 1 \/ Len(projects) < 1 THEN 1
                            ELSE IF half < Len(projects) THEN half
                            ELSE Len(projects)
        /\ 1 <= max_workers /\ max_workers <= Len(projects)
        /\ Cardinality(Running(build_future)) <= max_workers

(* Two targets and a pool of one thread: one build task runs and the other
   waits in the queue. *)
C30_Witness ==
    /\ BuildPoolOpen
    /\ Len(projects) = 2
    /\ max_workers = 1
    /\ Cardinality(Running(build_future)) = 1
    /\ Cardinality(Pending(build_future)) = 1

(* Two targets and two threads: both build tasks run. *)
C30_BothRun ==
    BuildPoolOpen /\ max_workers = 2 /\ Cardinality(Running(build_future)) = 2

(***************************************************************************)
(* Properties of create_build_dir.                                         *)
(***************************************************************************)

(* The removals whose failure has to end the call. *)
FatalRemovals == {"ini", "boards"}

(* C21: when the removal of the stale platformio.ini or of the existing
   boards directory fails, create_build_dir returns success = False and
   "pio project init" is not run; only the removal of the lib directory
   may fail with a warning. *)
C21_FatalRemovals ==
    \A path \in FatalRemovals :
        (path \in create.unremoved /\ create[path]) =>
            /\ ~create.init_ran
            /\ create.pc = "returned" => create.result = "False"

(* What does hold: a failed removal of the boards directory ends the call
   with False before the project is initialized, and a failed removal of
   the lib directory does not end it. *)
C21_BoardsRemovalFatal ==
    "boards" \in create.unremoved =>
        create.pc = "returned" /\ create.result = "False" /\ ~create.init_ran

C21_LibRemovalAdvisory ==
    /\ create.pc = "returned"
    /\ create.unremoved = {"lib"}
    /\ create.init_ran
    /\ create.result = "True"

(***************************************************************************)
(* Properties of ci-compile.py and its two-stage build.                    *)
(***************************************************************************)

(* The commands of a stage started for board k, by position in the list
   of all commands. *)
CommandsOf(k, name) ==
    {j \in DOMAIN stage.commands :
        stage.commands[j].board = k /\ stage.commands[j].stage = name}

(* The batch commands started for unit i of board k. *)
BatchOf(k, i) == {j \in CommandsOf(k, "batch") : stage.commands[j].unit = i}

(* compile_with_pio_ci_optimized has returned for board k. *)
BoardDone(k) == k \in DOMAIN stage.results

(* The stage 1 build of board k ended with exit code 0. *)
SeedSucceeded(k) ==
    \E j \in CommandsOf(k, "seed") : stage.commands[j].exit = "0"

(* The stage 1 build of board k failed: its command ended otherwise, or the
   first example has no .ino file. *)
SeedFailed(k) ==
    \/ \E j \in CommandsOf(k, "seed") :
          stage.commands[j].exit \in {"1", "exception"}
    \/ /\ BoardDone(k)
       /\ stage.boards[k] # "web"
       /\ stage.example_paths # <<>>
       /\ stage.example_paths[1] # "ino"

(* The examples after the first, and those of them that failed for board
   k: no .ino file, or a batch command that did not end with 0. *)
Remaining == DOMAIN stage.example_paths \ {1}
FailedUnits(k) ==
    {i \in Remaining :
        \/ stage.example_paths[i] # "ino"
        \/ \E j \in BatchOf(k, i) : stage.commands[j].exit \in {"1", "exception"}}

(* C22: every toolchain invocation is bounded by a timeout: a command that
   _execute_pio_command has started is eventually returned from, whether
   or not the subprocess ever ends. *)
C22_InvocationReturns ==
    (stage.pc \in {"seed", "batch"}) ~> (stage.pc \notin {"seed", "batch"})

(* The run has a configuration error: a board that get_board does not
   know, or an example without an .ino file (its directory missing or
   holding none). *)
ConfigurationError ==
    \/ \E k \in DOMAIN stage.boards : stage.boards[k] = "nosuch"
    \/ \E i \in DOMAIN stage.example_paths : stage.example_paths[i] # "ino"

(* Some board of the run has a toolchain (it is not the web board, which
   is skipped). *)
BuildsSomeBoard ==
    \E k \in DOMAIN stage.boards : stage.boards[k] # "web"

(* C23: with a configuration error no toolchain command is started for any
   unit, and the run (of at least one board with a toolchain) fails. *)
C23_ConfigurationErrorsAbortEarly ==
    ConfigurationError =>
        /\ stage.commands = <<>>
        /\ (stage.pc = "done" /\ BuildsSomeBoard) => stage.rtn = "1"

(* What does hold: an unknown board or a missing example directory ends
   the run with 1 before any command. *)
C23_UnknownEndsRun ==
    (\/ \E k \in DOMAIN stage.boards : stage.boards[k] = "nosuch"
     \/ \E i \in DOMAIN stage.example_paths : stage.example_paths[i] = "missing")
        => /\ stage.commands = <<>>
           /\ stage.pc = "done" => stage.rtn = "1"

(* C24: when the stage 1 build of a board fails (its command does not end
   with 0, or the first example has no .ino file),
   compile_with_pio_ci_optimized returns failure for the board and no
   stage 2 command is ever started for it. *)
C24_SeedFailureAborts ==
    \A k \in DOMAIN stage.boards :
        SeedFailed(k) =>
            /\ CommandsOf(k, "batch") = {}
            /\ stage.pc \notin {"seed", "stage2", "batch"} \/ stage.b # k
            /\ BoardDone(k) /\ ~stage.results[k].ok

(* The seed of a board with a second example that has an .ino file ended
   with 1, and the run is over. *)
C24_Witness ==
    /\ stage.pc = "done"
    /\ Len(stage.example_paths) > 1
    /\ stage.example_paths[2] = "ino"
    /\ \E k \in DOMAIN stage.boards :
          /\ \E j \in CommandsOf(k, "seed") : stage.commands[j].exit = "1"
          /\ ~stage.results[k].ok
          /\ CommandsOf(k, "batch") = {}

(* C25: after a successful seed every remaining example of the board is
   attempted whatever became of the others (a command for each one that
   has an .ino file); the board's result is failure exactly when some
   remaining example failed, and its message has one error per failed
   example. *)
C25_BatchIndependence ==
    \A k \in DOMAIN stage.results :
        SeedSucceeded(k) =>
            /\ \A i \in Remaining :
                  stage.example_paths[i] = "ino" => Cardinality(BatchOf(k, i)) = 1
            /\ stage.results[k].ok = (FailedUnits(k) = {})
            /\ Len(stage.results[k].errors) = Cardinality(FailedUnits(k))
            /\ {stage.results[k].errors[n] : n \in DOMAIN stage.results[k].errors}
                  = FailedUnits(k)

(* The batch command of the second example failed and the one of the third
   was run all the same and succeeded; the board is reported failed with
   one error. *)
C25_Witness ==
    \E k \in DOMAIN stage.results :
        /\ SeedSucceeded(k)
        /\ Len(stage.example_paths) = 3
        /\ \E j \in BatchOf(k, 2) : stage.commands[j].exit = "1"
        /\ \E j \in BatchOf(k, 3) : stage.commands[j].exit = "0"
        /\ ~stage.results[k].ok
        /\ stage.results[k].errors = <<2>>

(* Every batch command comes after a seed command of its board that ended
   with 0, and the batch commands of a board come in list order. *)
BatchAfterSeed ==
    \A k \in DOMAIN stage.boards :
        /\ \A j \in CommandsOf(k, "batch") :
              \E s \in CommandsOf(k, "seed") :
                  s < j /\ stage.commands[s].exit = "0"
        /\ \A j1, j2 \in CommandsOf(k, "batch") :
              j1 < j2 => stage.commands[j1].unit < stage.commands[j2].unit

(* The seed commands are for the first example and carry
   --disable-auto-clean, the batch commands carry lib_ldf_mode=chain. *)
CommandOptions ==
    \A j \in DOMAIN stage.commands :
        IF stage.commands[j].stage = "seed"
        THEN /\ stage.commands[j].unit = 1
             /\ "--disable-auto-clean" \in stage.commands[j].options
        ELSE "lib_ldf_mode=chain" \in stage.commands[j].options

(* A board with a toolchain has been given a list with at least one
   example, and compile_with_pio_ci_optimized has returned for it. *)
Built(k) ==
    BoardDone(k) /\ stage.boards[k] # "web" /\ stage.example_paths # <<>>

(* C27 (as amended): for each board there is at most one seed command, it
   is for the first example and carries --disable-auto-clean, and there is
   exactly one when the board is not the web board and the first example
   has an .ino file; no batch command starts before the seed has ended
   with 0; and when it has, each remaining example that has an .ino file
   gets exactly one batch command, carrying lib_ldf_mode=chain, in list
   order. *)
C27_TwoStageOrderAfterSeed ==
    /\ CommandOptions
    /\ BatchAfterSeed
    /\ \A k \in DOMAIN stage.boards :
          /\ Cardinality(CommandsOf(k, "seed")) <= 1
          /\ (Built(k) /\ stage.example_paths[1] = "ino")
                => Cardinality(CommandsOf(k, "seed")) = 1
          /\ (BoardDone(k) /\ SeedSucceeded(k)) =>
                \A i \in Remaining :
                    stage.example_paths[i] = "ino"
                        => Cardinality(BatchOf(k, i)) = 1

(* A board has built three examples: the seed and then the two batch
   commands, in list order. *)
C27_Witness ==
    \E k \in DOMAIN stage.results :
        /\ Len(stage.example_paths) = 3
        /\ Cardinality(CommandsOf(k, "seed")) = 1
        /\ Cardinality(BatchOf(k, 2)) = 1
        /\ Cardinality(BatchOf(k, 3)) = 1
        /\ \A j2 \in BatchOf(k, 2), j3 \in BatchOf(k, 3) : j2 < j3

(* C27 (as stated): for each board exactly one seed command, for the first
   example and with --disable-auto-clean; no batch command before the seed
   has ended with 0; and each remaining example that has an .ino file gets
   exactly one batch command with lib_ldf_mode=chain, in list order. *)
C27_TwoStageOrder ==
    /\ CommandOptions
    /\ BatchAfterSeed
    /\ \A k \in DOMAIN stage.boards :
          Built(k) =>
              /\ Cardinality(CommandsOf(k, "seed")) = 1
              /\ \A i \in Remaining :
                    stage.example_paths[i] = "ino"
                        => Cardinality(BatchOf(k, i)) = 1

(***************************************************************************)
(* Properties of runs over several targets.                                *)
(***************************************************************************)

(* The fingerprint of a unit as it is now, and the cold-start decision for
   it: a rebuild with every path of the fingerprint changed. *)
ScenarioFingerprint(u) == get_example_files_with_hashes(scenario.tree[u])
ColdDecision(u) == Result(TRUE, DOMAIN ScenarioFingerprint(u))

(* The rebuild decisions made so far in the run under way: target t, k-th
   unit of the list. *)
Decided == {tk \in ScenarioTargets \X DOMAIN scenario.examples :
               tk[2] \in DOMAIN scenario.decisions[tk[1]]}
DecisionOf(tk) == scenario.decisions[tk[1]][tk[2]]
UnitOf(tk) == scenario.examples[tk[2]]

(* A run without --clean-cache, and the modification of a file of the
   fingerprint of unit u. *)
PlainRun == RunEvent(FALSE)
ModifiedSince(u) ==
    \E p \in Paths :
        /\ ~_fastled_js_is_parent_directory(p)
        /\ scenario.events \in
              {<<PlainRun, EditEvent("modify", u, p), PlainRun>>,
               <<PlainRun, PlainRun, EditEvent("modify", u, p), PlainRun>>}

(* C26: the end-to-end scenario with two targets and the units Blink (U1)
   and Fade (U2), every build succeeding.  In the first run, cold, every
   decision is a rebuild; in a second run with no change in between none
   is; in the run after one file of a unit was modified the decisions of
   both targets are a rebuild for that unit and none for the other unit;
   and each of these runs decides on all four (target, unit) pairs. *)
C26_EndToEndScenario ==
    (scenario.examples = <<Blink, Fade>> /\ ~scenario.failed) =>
        /\ scenario.events = <<PlainRun>> =>
              \A tk \in Decided : DecisionOf(tk) = ColdDecision(UnitOf(tk))
        /\ scenario.events = <<PlainRun, PlainRun>> =>
              \A tk \in Decided : DecisionOf(tk) = Result(FALSE, {})
        /\ \A u \in {Blink, Fade} :
              ModifiedSince(u) =>
                  \A tk \in Decided : DecisionOf(tk).flag = (UnitOf(tk) = u)
        /\ (scenario.pc = "idle" /\ scenario.events # <<>> /\
            scenario.events[Len(scenario.events)].e = "run") =>
              Decided = ScenarioTargets \X DOMAIN scenario.examples

(* The third run of the scenario is over: after a cold run and a run
   without change main.ino of Blink was modified, and both targets decided
   to rebuild Blink and not Fade. *)
C26_Witness ==
    /\ scenario.pc = "idle"
    /\ ~scenario.failed
    /\ scenario.examples = <<Blink, Fade>>
    /\ scenario.events =
          <<PlainRun, PlainRun, EditEvent("modify", Blink, MainIno), PlainRun>>
    /\ \A t \in ScenarioTargets :
          /\ Len(scenario.decisions[t]) = 2
          /\ scenario.decisions[t][1] = Result(TRUE, {MainIno})
          /\ scenario.decisions[t][2] = Result(FALSE, {})

(* The run under way was started with --clean-cache and has cleaned the
   caches. *)
CleanRun == scenario.clean_cache /\ scenario.pc = "build"

(* C29: in a run with clean_cache every cache file is deleted before any
   build, so the first rebuild decision of every (target, unit) of the run
   is a cold start. *)
C29_CleanCacheColdStart ==
    CleanRun => \A tk \in Decided : DecisionOf(tk) = ColdDecision(UnitOf(tk))

(* What does hold: the cache files are gone before the first decision, a
   clean of absent files changes nothing, and the decisions are cold for
   units whose names differ. *)
C29_CleanedBeforeBuild ==
    /\ (CleanRun /\ Decided = {}) =>
          \A t \in ScenarioTargets : scenario.cache[t] = AbsentFile
    /\ clean_build_cache(NoScenario.cache) = NoScenario.cache
    /\ (CleanRun /\ scenario.examples = <<Blink, Fade>>) =>
          \A tk \in Decided : DecisionOf(tk) = ColdDecision(UnitOf(tk))

(***************************************************************************)
(* Properties of the later claims.                                         *)
(***************************************************************************)

(* The toolchain subprocess of task i is running. *)
InFlight(i) == build_future[i] = "running"

(* C31: a failure in the build phase stops dispatch and lets in-flight     *)
(* work finish.  The cancellation after the first failed result turns      *)
(* exactly the futures that have not started into cancelled ones; from     *)
(* then on no task starts; a running task leaves the running state only by *)
(* its own return (or exception), never by the main thread; and            *)
(* concurrent_run_v2 returns only when no task is running.                 *)
C31_FailureLetsInFlightFinish ==
    [][/\ (main_pc = "build_cancel" /\ main_pc' = "build_shutdown")
            => \A i \in Tasks :
                  build_future'[i] = IF build_future[i] = "pending"
                                     THEN "cancelled" ELSE build_future[i]
       /\ main_pc = "build_shutdown"
            => \A i \in Tasks : ~InFlight(i) => ~InFlight(i)'
       /\ \A i \in Tasks :
             (InFlight(i) /\ ~InFlight(i)')
                => /\ task_pc[i] \in {"loop", "update", "ret"}
                   /\ task_pc'[i] = "done"
                   /\ build_future'[i] \in {"ok", "failed", "raised"}
       /\ (main_pc = "build_shutdown" /\ main_pc' = "done")
            => \A i \in Tasks : ~InFlight(i) /\ task_pc[i] \in {"none", "done"}
      ]_vars

(* The failure of one target has been reported and the futures cancelled
   while the toolchain of another target is still running. *)
C31_Witness ==
    /\ main_pc = "build_shutdown"
    /\ \E i, j \in Tasks :
          /\ reported[i] = "failed"
          /\ InFlight(j)
          /\ task_pc[j] = "build"

(* The build task of target i returned failure or raised. *)
BuildFailed(i) == build_future[i] \in {"failed", "raised"}

(* The status with which concurrent_run_v2 ended says that a target's
   initialization failed, a build task failed or the flag is set, exactly
   when one of these is so. *)
StatusIsTrue ==
    /\ rtn # "0" <=> \/ pool_hist.init_failed
                     \/ \E i \in Tasks : BuildFailed(i)
                     \/ ERROR_HAPPENED
    /\ rtn = "0" => /\ \A i \in Tasks : init_future[i] = "ok"
                    /\ \A i \in Tasks : BuiltAll(i)

(* C32: overall exit status.  When concurrent_run_v2 has returned, the     *)
(* status is non-zero exactly when an initialization failed, a build task  *)
(* returned failure or raised, or ERROR_HAPPENED is set; it is 0 only when *)
(* every target was initialized and built all its units; and every target  *)
(* whose build failed is in the list of failure messages.                  *)
C32_ExitStatus ==
    main_pc = "done"
       => /\ StatusIsTrue
          /\ \A i \in Tasks : BuildFailed(i) => reported[i] = "failed"

(* The status alone is right. *)
C32_StatusOnly == main_pc = "done" => StatusIsTrue

(* The working area is what a clean full sync of the current tree makes. *)
AreaIsCurrentTree == sync.srcdir = CleanFullSync(Blink, sync.tree)

(* Every file outside changed_files is as it was before the sync. *)
OthersUntouched ==
    \A p \in Paths \ sync.changed_files :
        sync.srcdir.files[p] = sync.before.files[p]

(* C33: incremental sync is equivalent to a clean full sync.  When the     *)
(* working area mirrors the unit as of the cached fingerprint and          *)
(* changed_files is what needs_rebuild computed, then after                *)
(* sync_example_files(unit, srcdir, changed_files) the working area holds  *)
(* exactly the files of the current tree, and every file outside           *)
(* changed_files is untouched.                                             *)
C33_IncrementalIsCleanFull ==
    sync.pc = "synced" => AreaIsCurrentTree /\ OthersUntouched

(* The same with no library source newer than the cache file. *)
C33_WithoutLibraryChange ==
    (sync.pc = "synced" /\ ~LibraryNewer(sync.cache, sync.lib))
        => AreaIsCurrentTree /\ OthersUntouched

(* An incremental sync that copied a file and removed another. *)
C33_CopiedAndRemoved ==
    /\ sync.pc = "synced"
    /\ ~LibraryNewer(sync.cache, sync.lib)
    /\ \E p, q \in sync.changed_files :
          /\ sync.srcdir.files[p] = NoFile /\ sync.before.files[p] # NoFile
          /\ sync.srcdir.files[q] # NoFile /\ sync.srcdir.files[q] # sync.before.files[q]

(* robust_rmtree is under way. *)
RmtreeRunning == rmtree.pc \in {"attempt", "sleep"}

(* The sum of delay * 2^k for k < n. *)
TotalBackoff(delay, n) == delay * ((2 ^ n) - 1)

(* C34: robust_rmtree always terminates.  It makes at most max_retries     *)
(* removal attempts, the wait after the failed attempt number k is         *)
(* delay * 2^k, there is no wait after the last attempt, and every call    *)
(* returns True or False, whatever the filesystem does.                    *)
C34_RmtreeTerminates ==
    /\ [](/\ RmtreeRunning => rmtree.attempt < rmtree.max_retries
          /\ rmtree.failed <= rmtree.max_retries
          /\ rmtree.pc = "sleep" => rmtree.attempt < rmtree.max_retries - 1
          /\ rmtree.pc = "returned" => rmtree.result \in {"True", "False"})
    /\ [][/\ (rmtree.pc = "attempt" /\ rmtree'.pc = "sleep")
               => rmtree'.slept = rmtree.slept
                                    + rmtree.delay * (2 ^ rmtree.attempt)
          /\ rmtree'.pc = "sleep" => rmtree.pc \in {"attempt", "sleep"}
          /\ (RmtreeRunning /\ rmtree'.pc # "sleep")
               => rmtree'.slept = rmtree.slept]_vars
    /\ (RmtreeRunning ~> rmtree.pc = "returned")

(* A call that used up a budget of three attempts and waited after the
   first two. *)
C34_Witness ==
    /\ rmtree.pc = "returned"
    /\ rmtree.result = "False"
    /\ rmtree.max_retries = 3
    /\ rmtree.failed = 3
    /\ rmtree.delay = 2
    /\ rmtree.slept = TotalBackoff(2, 2)

(* The fingerprint of the files of the working source area. *)
AreaFingerprint ==
    [p \in {q \in Paths : srcdir.files[q] # NoFile}
       |-> get_file_hash(srcdir.files[p].content)]

(* Every file of the working source area was copied from the unit being
   built. *)
AreaIsOfExample ==
    \A p \in Paths : srcdir.files[p] # NoFile => srcdir.files[p].unit = example

(* C35: the fingerprint stored after a successful build is the fingerprint *)
(* of the sources that were built.  When the working area holds files of   *)
(* the unit only, the entry that update_build_cache is about to save for   *)
(* the unit is the fingerprint of the files of the area, also when unit    *)
(* files were modified while the toolchain ran.                            *)
C35_StoredIsBuilt ==
    (pc = "save" /\ AreaIsOfExample)
        => cache_data.d[cache_key(example)] = PyDict(AreaFingerprint)

(* The same when the unit was not modified since the sync. *)
C35_StoredIsBuiltUnlessEdited ==
    (pc = "save" /\ AreaIsOfExample /\ edits = 0)
        => cache_data.d[cache_key(example)] = PyDict(AreaFingerprint)

(* C36: no cross-target contamination of defines during initialization.    *)
(* For every order and interleaving of the create_build_dir calls of a     *)
(* run, the -D list of the project init command of a target holds only     *)
(* the run's global defines and the defines of that target's board.        *)
C36_NoForeignDefines ==
    \A k \in DOMAIN defs.call :
        defs.call[k].built
           => defs.call[k].cmd \subseteq GlobalDefines \cup BoardDefines(BoardOfCall(k))

(* The same for a run whose boards have no defines of their own. *)
C36_PlainBoards ==
    (\A i \in DOMAIN defs.projects : BoardDefines(defs.projects[i]) = {})
       => \A k \in DOMAIN defs.call :
             defs.call[k].built => defs.call[k].cmd = GlobalDefines

(* The process ends and a new one loads the module (line 18). *)
ProcessRestarts == pc \in {"idle", "raised", "dump"} /\ pc' = "idle" /\ runs' = runs

(* C37: ERROR_HAPPENED is monotonic.  It is false when the module is       *)
(* loaded; within a process no step resets it; it becomes true only when   *)
(* the toolchain exits non-zero or compile_examples records a failed unit; *)
(* and a compile_examples call that finds it set returns at once, so that  *)
(* with the flag set no unit is decided, synced or built.                  *)
C37_FlagMonotonic ==
    /\ [](ERROR_HAPPENED => pc \in {"idle", "loop", "ret"})
    /\ [][/\ (ERROR_HAPPENED /\ ~ERROR_HAPPENED') => ProcessRestarts
          /\ (~ERROR_HAPPENED /\ ERROR_HAPPENED')
                => \/ (pc = "build" /\ pc' = "ret" /\ ~success')
                   \/ (pc = "ret" /\ ~success)
          /\ (ERROR_HAPPENED /\ pc = "loop" /\ pc' # pc)
                => (pc' = "idle" /\ okUnits' = okUnits /\ srcdir' = srcdir
                      /\ cacheFile' = cacheFile)]_vars

(* A second compile_examples call of the process, made with the flag set
   by the failed build of the first call. *)
C37_Witness ==
    /\ ERROR_HAPPENED
    /\ pc = "loop"
    /\ runs = 2
    /\ idx = 1

(* The same in one concurrent_run_v2 call: no task resets the flag. *)
C37_PoolFlagMonotonic ==
    [][ERROR_HAPPENED => ERROR_HAPPENED']_vars

(* The entry of unit u in the cache file cf of target t, as needs_rebuild
   and update_build_cache find it. *)
NoEntry == PyOther("none")
EntryOf(cf, t, u) ==
    LET cache_data_ == load_build_cache(cf)
    IN  IF PyIn(build_cache_key(t, u), cache_data_)
        THEN cache_data_.d[build_cache_key(t, u)]
        ELSE NoEntry

(* The task of target t ends the build of its unit in this step. *)
BuildEnds(t) ==
    scenario.pc = "build" /\ scenario.task[t].pc = "build"
       /\ scenario'.task[t].pc # "build"

(* The unit that the task of target t is building. *)
UnitBuilt(t) == scenario.examples[scenario.task[t].idx]

(* C38: distinct units of the same target have distinct cache entries.     *)
(* The step that ends the build of a unit leaves the entry of every other  *)
(* unit of the target as it was, and the decision for a unit that was      *)
(* never built for the target finds no entry, also when the two units      *)
(* share their last path component.                                        *)
C38_DistinctEntries ==
    [][\A t \in ScenarioTargets :
          /\ BuildEnds(t) =>
                \A v \in ScenarioUnits \ {UnitBuilt(t)} :
                    EntryOf(scenario'.cache[t], t, v) = EntryOf(scenario.cache[t], t, v)
          /\ \A u, v \in ScenarioUnits :
                u # v => build_cache_key(t, u) # build_cache_key(t, v)]_vars

(* What does hold: the entries under other keys are left as they were. *)
C38_OtherKeysKept ==
    [][\A t \in ScenarioTargets :
          BuildEnds(t) =>
              \A v \in ScenarioUnits :
                  build_cache_key(t, v) # build_cache_key(t, UnitBuilt(t))
                     => EntryOf(scenario'.cache[t], t, v)
                           = EntryOf(scenario.cache[t], t, v)]_vars

(* C40: update_build_cache(target, unit, fp) replaces the entry of the     *)
(* unit with fp and leaves the entry of every other unit of the target's   *)
(* cache file unchanged: after a successful build of unit U the entry of U *)
(* is the fingerprint of U, and a unit V other than U whose fingerprint    *)
(* was stored before still has its own fingerprint as its entry.           *)
C40_UpdateFrame ==
    [][\A t \in ScenarioTargets :
          (BuildEnds(t) /\ scenario'.task[t].pc = "loop") =>
              /\ EntryOf(scenario'.cache[t], t, UnitBuilt(t))
                    = PyDict(ScenarioFingerprint(UnitBuilt(t)))
              /\ \A v \in ScenarioUnits \ {UnitBuilt(t)} :
                    EntryOf(scenario.cache[t], t, v) = PyDict(ScenarioFingerprint(v))
                       => EntryOf(scenario'.cache[t], t, v)
                             = PyDict(ScenarioFingerprint(v))]_vars

(* The same for units whose names differ. *)
C40_UpdateFrameDistinctNames ==
    [][\A t \in ScenarioTargets :
          (BuildEnds(t) /\ scenario'.task[t].pc = "loop"
                /\ scenario.examples = <<Blink, Fade>>) =>
              /\ EntryOf(scenario'.cache[t], t, UnitBuilt(t))
                    = PyDict(ScenarioFingerprint(UnitBuilt(t)))
              /\ \A v \in {Blink, Fade} \ {UnitBuilt(t)} :
                    EntryOf(scenario'.cache[t], t, v)
                       = EntryOf(scenario.cache[t], t, v)]_vars

(* The units whose entry was stored for their current tree and which were
   not built since a library source was modified. *)
StaleByLibrary == {u \in freshTree \ fresh : HasEntry(u)}

(* C39: per-unit library staleness.  If a library source file was modified *)
(* after the last successful build of a unit, the next needs_rebuild of    *)
(* that unit returns true, also when another unit of the target was built  *)
(* after the modification and the shared cache file was rewritten.         *)
C39_PerUnitLibraryStaleness ==
    ~Saving => \A u \in StaleByLibrary : Decision(u).flag

=============================================================================
